---------------------------- MODULE Spec2Model ----------------------------
(***************************************************************************)
(* A model of the GeoPotent estimation engine (src/utils).                 *)
(*                                                                         *)
(* The engine is a set of functions over floating-point numbers.  The      *)
(* model computes with exact fixed-point numbers: every quantity is an     *)
(* integer numerator over a denominator that is fixed per quantity and     *)
(* named where the quantity is defined.  Rounding of IEEE doubles is       *)
(* therefore outside the model; everything else (guards, order of the      *)
(* piecewise rules, defaults, missing values) follows the source.          *)
(*                                                                         *)
(* A missing value (None / NaN) is the empty tuple <<>>, a present value v *)
(* is <<v>>.  A function that has not returned yet has result <<>>, a      *)
(* function that returned r has result <<r>>.                              *)
(***************************************************************************)
EXTENDS Integers, Sequences, FiniteSets, TLC

VARIABLES
    mixed_args,   \* arguments of the call of calculate_mixed_potential
    mixed_ret,    \* <<>> before it returns, <<result>> after
    pv_args,      \* arguments of the call of pv_energy_model_from_hourly
    pv_ret,
    wind_args,    \* arguments of the call of wind_energy_model_from_hourly
    wind_ret,
    fetch_args,   \* arguments of fetch_hourly_weather and the API's answer
    fetch_ret,
    est_args,     \* arguments of estimate_energy_potential and its environment
    est_ret,
    json_args,    \* the values estimate_energy_potential hands to safe_json
    json_ret,
    soil_args,    \* arguments of get_soil_data and the API's answer
    soil_ret,
    clock,        \* seconds since the start
    cache,        \* the response cache of the weather session, per request
    net_log,      \* the 200 responses the weather session got from the network
    cache_call,   \* the latest call of fetch_hourly_weather through the cache
    agri_args,    \* arguments of the call of estimate_agri_revenue
    agri_ret,
    crop_args,    \* arguments of the call of recommend_crops
    crop_ret,
    view_args,    \* the analysis ProcessAnalysisView.get works on, and the APIs' answers
    view_ret,
    reqs,         \* the estimation requests in progress, per worker thread
    figures       \* the figures registered with matplotlib.pyplot in the process

json_vars == <<json_args, json_ret>>

soil_vars == <<soil_args, soil_ret>>

cache_vars == <<clock, cache, net_log, cache_call>>

agri_vars == <<agri_args, agri_ret>>

crop_vars == <<crop_args, crop_ret>>

view_vars == <<view_args, view_ret>>

vars == <<mixed_args, mixed_ret, pv_args, pv_ret, wind_args, wind_ret,
          fetch_args, fetch_ret, est_args, est_ret,
          json_vars, soil_vars, cache_vars, agri_vars, crop_vars, view_vars, reqs, figures>>

\* A function the specification at hand does not call
MixedIdle == mixed_args = <<>> /\ mixed_ret = <<>>
PvIdle == pv_args = <<>> /\ pv_ret = <<>>
WindIdle == wind_args = <<>> /\ wind_ret = <<>>
FetchIdle == fetch_args = <<>> /\ fetch_ret = <<>>
EstIdle == est_args = <<>> /\ est_ret = <<>>
JsonIdle == json_args = <<>> /\ json_ret = <<>>
SoilIdle == soil_args = <<>> /\ soil_ret = <<>>
CacheIdle == clock = 0 /\ cache = <<>> /\ net_log = {} /\ cache_call = <<>>
AgriIdle == agri_args = <<>> /\ agri_ret = <<>>
CropIdle == crop_args = <<>> /\ crop_ret = <<>>
ViewIdle == view_args = <<>> /\ view_ret = <<>>
ReqsIdle == reqs = <<>> /\ figures = {}

-----------------------------------------------------------------------------
(* Generic helpers *)

NaN == <<>>

IsNaN(x) == x = <<>>

\* dict.get(key, default) on a mapping whose keys are strings
DictGet(d, k, default) == IF k \in DOMAIN d THEN d[k] ELSE default

Min(a, b) == IF a <= b THEN a ELSE b

\* All sequences over S of length 0..n
SeqsUpTo(S, n) == UNION {[1..k -> S] : k \in 0..n}

RECURSIVE SumSeq(_)
SumSeq(s) == IF s = <<>> THEN 0 ELSE s[1] + SumSeq(Tail(s))

-----------------------------------------------------------------------------
(* calculate_mixed_potential                                                *)
(*                                                                          *)
(* Units: pv_energy_kwh and wind_energy_kwh are numerators over KwhDen     *)
(* (so 100 means 100/6 kWh), max_revenue is in whole INR.  Revenues inside *)
(* the function are numerators over RevDen = KwhDen * BlendDen: the blend  *)
(* coefficients 0.9, 0.6, 0.7, 0.95, 0.65 are numerators over BlendDen.    *)

KwhDen == 6

BlendDen == 20

RevDen == KwhDen * BlendDen

\* price_per_kwh = 6.0, in INR per kWh
MixPricePerKwh == 6

SolarInHybrid == 18      \* 0.9
SolarInAgri == 12        \* 0.6
AgriInAgrivoltaics == 14 \* 0.7
AgriInWindAgri == 19     \* 0.95
AgriInMixed == 13        \* 0.65

\* s_w_revenue = (solar_revenue * 0.9) + wind_revenue, over RevDen
SolarWindRevenue_Solar95(solar_revenue, wind_revenue) ==
    (solar_revenue * 19) + (wind_revenue * BlendDen)

SolarWindRevenue(solar_revenue, wind_revenue) ==
    (solar_revenue * SolarInHybrid) + (wind_revenue * BlendDen)

\* s_a_revenue = (solar_revenue * 0.6) + (agri_revenue * 0.7)
AgrivoltaicsRevenue(solar_revenue, agri_revenue) ==
    (solar_revenue * SolarInAgri) + (agri_revenue * AgriInAgrivoltaics)

\* w_a_revenue = wind_revenue + (agri_revenue * 0.95)
WindAgriRevenue(wind_revenue, agri_revenue) ==
    (wind_revenue * BlendDen) + (agri_revenue * AgriInWindAgri)

\* all_revenue = (solar_revenue * 0.6) + (agri_revenue * 0.65) + wind_revenue
AllRevenue(solar_revenue, wind_revenue, agri_revenue) ==
    (solar_revenue * SolarInAgri) + (agri_revenue * AgriInMixed)
        + (wind_revenue * BlendDen)

\* The scenario list built by the seven scenarios.append calls.  A name such
\* as f"Agriculture Only ({best_crop})" is the pair of its fixed part and the
\* crop.  The arguments are numerators over KwhDen, the revenues of the
\* scenarios numerators over RevDen.
BuildScenarios(solar_revenue, wind_revenue, agri_revenue, best_crop) ==
    << [name |-> <<"Solar Only">>, revenue |-> solar_revenue * BlendDen],
       [name |-> <<"Wind Only">>, revenue |-> wind_revenue * BlendDen],
       [name |-> <<"Agriculture Only", best_crop>>,
        revenue |-> agri_revenue * BlendDen],
       [name |-> <<"Solar + Wind">>,
        revenue |-> SolarWindRevenue(solar_revenue, wind_revenue)],
       [name |-> <<"Agrivoltaics (Solar + crop)", best_crop>>,
        revenue |-> AgrivoltaicsRevenue(solar_revenue, agri_revenue)],
       [name |-> <<"Wind + Agriculture", best_crop>>,
        revenue |-> WindAgriRevenue(wind_revenue, agri_revenue)],
       [name |-> <<"Mixed (Solar + Wind + Agri)">>,
        revenue |-> AllRevenue(solar_revenue, wind_revenue, agri_revenue)] >>

\* Python's max(iterable, key=...): the running best is replaced only by a
\* strictly greater key, so the first of several maxima is returned.
RECURSIVE PyMaxFrom(_, _, _)
PyMaxFrom(scenarios, i, best) ==
    IF i > Len(scenarios) THEN best
    ELSE PyMaxFrom(scenarios, i + 1,
                   IF scenarios[i].revenue > best.revenue
                   THEN scenarios[i] ELSE best)

\* The mutant: the running best is replaced by an equal key too
RECURSIVE PyMaxFrom_Last(_, _, _)
PyMaxFrom_Last(scenarios, i, best) ==
    IF i > Len(scenarios) THEN best
    ELSE PyMaxFrom_Last(scenarios, i + 1,
                        IF scenarios[i].revenue >= best.revenue
                        THEN scenarios[i] ELSE best)

PyMaxByRevenue_Last(scenarios) == PyMaxFrom_Last(scenarios, 2, scenarios[1])

PyMaxByRevenue(scenarios) == PyMaxFrom(scenarios, 2, scenarios[1])

\* The price the function applies to the energy results it is given:
\* price_per_kwh = 6.0 (line 302), whatever price the results were made with
MixedPrice_FromConfig(energy_results) == energy_results.config.pv.price_per_kwh

MixedPrice(energy_results) == MixPricePerKwh

\* agri_revenue = crop_results.get("max_revenue", 0) (line 307), in whole INR;
\* area_ha is not used
AgriRevenue_PerHectare(crop_results, area_ha) ==
    DictGet(crop_results, "max_revenue", 0) * area_ha

AgriRevenue(crop_results, area_ha) == DictGet(crop_results, "max_revenue", 0)

calculate_mixed_potential(energy_results, crop_results, area_ha) ==
    LET solar_kwh == DictGet(energy_results, "pv_energy_kwh", 0)
        wind_kwh == DictGet(energy_results, "wind_energy_kwh", 0)
        \* max_revenue is in whole INR; over KwhDen like the energy revenues
        agri_revenue == AgriRevenue(crop_results, area_ha) * KwhDen
        best_crop == DictGet(crop_results, "best_crop", "Unknown")
        solar_revenue == solar_kwh * MixedPrice(energy_results)   \* over KwhDen
        wind_revenue == wind_kwh * MixedPrice(energy_results)
        scenarios == BuildScenarios(solar_revenue, wind_revenue,
                                    agri_revenue, best_crop)
    IN  [scenarios |-> scenarios, best_scenario |-> PyMaxByRevenue(scenarios)]

-----------------------------------------------------------------------------
(* pv_energy_model_from_hourly                                              *)
(*                                                                          *)
(* Units: irradiance in 100 W/m2, area in 100 m2, efficiency in hundredths, *)
(* performance_ratio, system_efficiency and land_coverage in twentieths.    *)
(* Hourly PV energy is a numerator over PvDen kWh:                          *)
(*   (irr*100/1000) * (area*100 * lc/20) * eff/100 * pr/20 * se/20          *)
(*     = irr * area * lc * eff * pr * se / 80000.                           *)

PvDen == 80000

\* The guard of line 126 (the series is never None in this repository)
PvDegenerate_NoAreaGuard(irradiance_wm2_series, area_m2) ==
    irradiance_wm2_series = <<>>

PvDegenerate(irradiance_wm2_series, area_m2) ==
    irradiance_wm2_series = <<>> \/ area_m2 <= 0

\* kwh_per_m2 * pv_area * eff * pr * sys_eff for one sample; NaN stays NaN
PvHourKwh_NoCoverage(irr, area_m2, eff, pr, sys_eff, land_cov) ==
    IF IsNaN(irr) THEN NaN
    ELSE << irr[1] * (area_m2 * 20) * eff * pr * sys_eff >>

PvHourKwh(irr, area_m2, eff, pr, sys_eff, land_cov) ==
    IF IsNaN(irr) THEN NaN
    ELSE LET pv_area == area_m2 * land_cov
         IN  << irr[1] * pv_area * eff * pr * sys_eff >>

\* Series.fillna(value): a series of numbers
FillNa(series, value) ==
    [i \in 1..Len(series) |-> IF IsNaN(series[i]) THEN value ELSE series[i][1]]

\* pd.Series(0.0, index=series.index) (lines 127, 155)
ZeroSeries_Empty(series) == <<>>

ZeroSeries(series) == [i \in 1..Len(series) |-> 0]

pv_energy_model_from_hourly(irradiance_wm2_series, area_m2, pv_cfg) ==
    IF PvDegenerate(irradiance_wm2_series, area_m2)
    THEN ZeroSeries(irradiance_wm2_series)
    ELSE LET eff == DictGet(pv_cfg, "efficiency", 18)
             pr == DictGet(pv_cfg, "performance_ratio", 15)
             sys_eff == DictGet(pv_cfg, "system_efficiency", 19)
             land_cov == DictGet(pv_cfg, "land_coverage", 20)
             energy_kwh ==
                 [i \in 1..Len(irradiance_wm2_series) |->
                     PvHourKwh(irradiance_wm2_series[i], area_m2,
                               eff, pr, sys_eff, land_cov)]
         IN  FillNa(energy_kwh, 0)

-----------------------------------------------------------------------------
(* wind_energy_model_from_hourly                                            *)
(*                                                                          *)
(* Units: wind speed and the three thresholds in m/s, rotor diameter in m,  *)
(* rated_power_kw in 1/1000 kW, cp and system_efficiency in twentieths.     *)
(* 0.5 * rho = 0.6125 = 49/80 and math.pi is taken as 22/7, so              *)
(*   power_w = (49/80) * (22/7) * (d*d/4) * v^3 * cp/20 * sys_eff/20        *)
(*           = 49 * 22 * d*d * v^3 * cp * sys_eff / WindDen.                *)
(* Powers in W and energies in Wh are numerators over WindDen; an energy    *)
(* in kWh (power_w / 1000.0) is the same numerator over 1000 * WindDen.     *)

WindDen == 896000

\* 0.5 * rho, over 80
HalfRho == 49

\* math.pi, over 7
PiNum == 22

\* power_w = 0.5 * rho * A * (v ** 3) * cp * sys_eff, with
\* A = math.pi * (rotor_diameter / 2.0) ** 2 (lines 157, 160)
CubicPowerW(v, rotor_diameter, cp, sys_eff) ==
    HalfRho * PiNum * rotor_diameter * rotor_diameter * (v * v * v) * cp * sys_eff

\* rated_power_w = rated_power_kw * 1000.0 (line 161)
RatedPowerW(rated_power_kw) == rated_power_kw * WindDen

\* Line 154
WindDegenerate_RotorOnly(rotor_diameter, rated_power_kw) == rotor_diameter <= 0

WindDegenerate(rotor_diameter, rated_power_kw) ==
    rotor_diameter <= 0 \/ rated_power_kw <= 0

\* Lines 163-164: below cut-in and above cut-out
WindCutOff_Inclusive(v, cut_in, cut_out, power_w) ==
    IF v <= cut_in THEN 0 ELSE IF v > cut_out THEN 0 ELSE power_w

WindCutOff_NoCutOut(v, cut_in, cut_out, power_w) ==
    IF v < cut_in THEN 0 ELSE power_w

WindCutOff(v, cut_in, cut_out, power_w) ==
    LET p1 == IF v < cut_in THEN 0 ELSE power_w
    IN  IF v > cut_out THEN 0 ELSE p1

\* Line 165: the cap between rated_ws and cut_out
WindCap_NoCap(v, rated_ws, cut_out, power_w, rated_power_w) == power_w

WindCap(v, rated_ws, cut_out, power_w, rated_power_w) ==
    IF v >= rated_ws /\ v <= cut_out THEN Min(power_w, rated_power_w)
    ELSE power_w

\* Line 166
WindClamp(power_w) == IF power_w < 0 THEN 0 ELSE power_w

\* Lines 160-166 for one sample.  A NaN speed gives a NaN power, every
\* comparison with NaN is false, so NaN passes the four np.where unchanged.
WindHourPowerW(ws, rotor_diameter, rated_power_kw, cut_in, rated_ws, cut_out, cp, sys_eff) ==
    IF IsNaN(ws) THEN NaN
    ELSE LET v == ws[1]
             p0 == CubicPowerW(v, rotor_diameter, cp, sys_eff)
             p2 == WindCutOff(v, cut_in, cut_out, p0)
             p3 == WindCap(v, rated_ws, cut_out, p2, RatedPowerW(rated_power_kw))
         IN  << WindClamp(p3) >>

wind_energy_model_from_hourly(ws_series, wind_cfg) ==
    IF ws_series = <<>> THEN <<>>
    ELSE LET rotor_diameter == DictGet(wind_cfg, "rotor_diameter_m", 0)
             rated_power_kw == DictGet(wind_cfg, "rated_power_kw", 0)
             cut_in == DictGet(wind_cfg, "cut_in_ms", 3)
             rated_ws == DictGet(wind_cfg, "rated_ws_ms", 12)
             cut_out == DictGet(wind_cfg, "cut_out_ms", 25)
             cp == DictGet(wind_cfg, "cp", 7)
             sys_eff == DictGet(wind_cfg, "system_efficiency", 19)
         IN  IF WindDegenerate(rotor_diameter, rated_power_kw)
             THEN ZeroSeries(ws_series)
             ELSE FillNa([i \in 1..Len(ws_series) |->
                             WindHourPowerW(ws_series[i], rotor_diameter,
                                            rated_power_kw, cut_in, rated_ws,
                                            cut_out, cp, sys_eff)], 0)

-----------------------------------------------------------------------------
(* fetch_hourly_weather                                                     *)
(*                                                                          *)
(* The arguments are summarised by whether they convert (dates that parse,  *)
(* coordinates that are numbers).  The answer of the archive API is a       *)
(* record: [kind |-> "network_error"], [kind |-> "timeout"], or             *)
(* [kind |-> "http", status |-> s, body |-> b] with the body                *)
(*   [kind |-> "not_json"]            not decodable as JSON                 *)
(*   [kind |-> "null"]                the JSON value null                   *)
(*   [kind |-> "no_hourly"]           an object without "hourly"            *)
(*   [kind |-> "empty_hourly"]        "hourly" is {} / null / []            *)
(*   [kind |-> "hourly_not_mapping"]  "hourly" is a non-empty list/string   *)
(*   [kind |-> "hourly_bad_values"]   an array holds a non-number or an     *)
(*                                    unparsable time                       *)
(*   [kind |-> "hourly", time, shortwave_radiation, wind_speed_10m]         *)
(* A timestamp is <<month, hour>>.  A DataFrame is the sequence of its rows.*)

\* What the body of the try block does: the exception it raises, or "none"
\* and the frame it returns (lines 79-117)
Raises(exc) == [exc |-> exc, df |-> <<>>]

Returns(df) == [exc |-> "none", df |-> df]

\* pd.Series(values) assigned to a frame column: aligned on the row index,
\* rows without a value get NaN (lines 110-111)
ColumnAt(values, i) == IF i <= Len(values) THEN values[i] ELSE NaN

\* Lines 109-111
BuildFrame(hourly) ==
    [i \in 1..Len(hourly.time) |->
        [time |-> hourly.time[i],
         shortwave_radiation |-> ColumnAt(hourly.shortwave_radiation, i),
         wind_speed_10m |-> ColumnAt(hourly.wind_speed_10m, i)]]

\* A row in which both irradiance and wind speed are missing
AllMissing(row) == IsNaN(row.shortwave_radiation) /\ IsNaN(row.wind_speed_10m)

\* df.dropna(subset=[...], how="all").reset_index(drop=True) (line 115)
RECURSIVE DropAllMissing(_)
DropAllMissing(df) ==
    IF df = <<>> THEN <<>>
    ELSE IF AllMissing(df[1]) THEN DropAllMissing(Tail(df))
         ELSE <<df[1]>> \o DropAllMissing(Tail(df))

FetchBody(request, api) ==
    IF request # "valid" THEN Raises("ValueError")
    ELSE IF api.kind = "network_error" THEN Raises("ConnectionError")
    ELSE IF api.kind = "timeout" THEN Raises("Timeout")
    ELSE IF api.status # 200 THEN Returns(<<>>)
    ELSE IF api.body.kind = "not_json" THEN Raises("JSONDecodeError")
    ELSE IF api.body.kind = "null" THEN Raises("TypeError")
    ELSE IF api.body.kind \in {"no_hourly", "empty_hourly"} THEN Returns(<<>>)
    ELSE IF api.body.kind = "hourly_not_mapping" THEN Raises("AttributeError")
    ELSE IF api.body.kind = "hourly_bad_values" THEN Raises("ValueError")
    ELSE Returns(DropAllMissing(BuildFrame(api.body)))

\* except Exception (line 119)
Caught_RequestErrorsOnly(exc) == exc \in {"ConnectionError", "Timeout"}

Caught(exc) == TRUE

fetch_hourly_weather(request, api) ==
    LET body == FetchBody(request, api)
    IN  IF body.exc = "none" THEN [raised |-> "none", df |-> body.df]
        ELSE IF Caught(body.exc) THEN [raised |-> "none", df |-> <<>>]
        ELSE [raised |-> body.exc, df |-> <<>>]

-----------------------------------------------------------------------------
(* fetch_hourly_weather and the response cache of its session               *)
(*                                                                          *)
(* Every call opens requests_cache.CachedSession(".openmeteo_cache",        *)
(* expire_after=3600) on the same cache file and makes one session.get      *)
(* (lines 91-92).  The session answers from the cache when it holds a       *)
(* response for the request that has not expired, and otherwise sends one   *)
(* request; it stores a response it got with status 200, stamped with the   *)
(* time it got it.  A request is identified by its latitude, longitude,     *)
(* start_date and end_date (the params of lines 82-89).  A cache entry is   *)
(* [at |-> time stored, api |-> the response]; times are in seconds.        *)

\* expire_after=3600
ExpireAfter == 3600

\* The entry has not expired at the time now
CacheFresh_NeverExpires(entry, now) == TRUE

CacheFresh(entry, now) == now - entry.at < ExpireAfter

\* session.get (line 92): the number of requests sent over the network, the
\* response handed back, and whether that response is stored
SessionGet(entries, now, key, api) ==
    IF entries[key] # <<>> /\ CacheFresh(entries[key][1], now)
    THEN [requests |-> 0, response |-> entries[key][1].api, stored |-> FALSE]
    ELSE [requests |-> 1, response |-> api,
          stored |-> api.kind = "http" /\ api.status = 200]

\* One call at the time now with the cache entries: what it returns, the
\* requests it sent, and the cache after it.  Arguments that do not convert
\* raise at lines 79-84, before the session is opened.
FetchThroughCache(entries, now, key, api) ==
    IF key = "bad_argument"
    THEN [ret |-> fetch_hourly_weather("bad_argument", api), requests |-> 0,
          stored |-> FALSE, entries |-> entries]
    ELSE LET got == SessionGet(entries, now, key, api)
         IN  [ret |-> fetch_hourly_weather("valid", got.response),
              requests |-> got.requests,
              stored |-> got.stored,
              entries |-> IF got.stored
                          THEN [entries EXCEPT ![key] = <<[at |-> now, api |-> api]>>]
                          ELSE entries]

-----------------------------------------------------------------------------
(* estimate_energy_potential                                                *)
(*                                                                          *)
(* PV energies are numerators over PvDen and wind energies numerators over  *)
(* 1000 * WindDen; the two denominators have no common multiple within the  *)
(* integers of the model checker.  A quantity that adds the two (an energy  *)
(* total, a revenue) is therefore the pair <<p, w>> that stands for         *)
(* p / PvDen + w / (1000 * WindDen): pairs are added and scaled by          *)
(* component, which is exact.                                               *)
(* area_m2 is <<"none">> (None), <<"text">> (a value float() rejects) or    *)
(* <<"num", a>> with a in 100 m2.                                           *)

PvKwh(p) == <<p, 0>>

WindKwh(w) == <<0, w>>

KwhAdd(a, b) == <<a[1] + b[1], a[2] + b[2]>>

KwhTimes(a, factor) == <<a[1] * factor, a[2] * factor>>

RECURSIVE KwhSum(_)
KwhSum(s) == IF s = <<>> THEN <<0, 0>> ELSE KwhAdd(s[1], KwhSum(Tail(s)))

\* Lines 182-185
AreaFloat(area_m2) == IF area_m2[1] = "num" THEN area_m2[2] ELSE 0

\* df.empty (line 188)
EmptyFrame_Never(df) == FALSE

EmptyFrame(df) == df = <<>>

\* Lines 189-198
EmptyResult(pv_config, wind_config, dc_voltage) ==
    [total_energy_kwh |-> <<0, 0>>,
     pv_energy_kwh |-> <<0, 0>>,
     wind_energy_kwh |-> <<0, 0>>,
     total_revenue |-> <<0, 0>>,
     monthly_breakdown |-> <<>>,
     hourly_plot |-> "",
     daily_plot |-> "",
     config |-> [pv |-> pv_config, wind |-> wind_config, dc_voltage |-> dc_voltage]]

\* df["total_energy_kwh"] = df["pv_energy_kwh"] + df["wind_energy_kwh"] (line 203)
HourlyTotal_PvOnly(pv_kwh, wind_kwh) == PvKwh(pv_kwh)

HourlyTotal(pv_kwh, wind_kwh) == KwhAdd(PvKwh(pv_kwh), WindKwh(wind_kwh))

\* Lines 201-203: the frame with its three energy columns
WithEnergy(df, area_m2, pv_config, wind_config) ==
    LET pv == pv_energy_model_from_hourly(
                  [i \in 1..Len(df) |-> df[i].shortwave_radiation], area_m2, pv_config)
        wind == wind_energy_model_from_hourly(
                  [i \in 1..Len(df) |-> df[i].wind_speed_10m], wind_config)
    IN  [i \in 1..Len(df) |->
            [time |-> df[i].time,
             pv_energy_kwh |-> PvKwh(pv[i]),
             wind_energy_kwh |-> WindKwh(wind[i]),
             total_energy_kwh |-> HourlyTotal(pv[i], wind[i])]]

\* pd.to_datetime(df["time"]).dt.to_period("M") (line 246)
MonthOf(time) == time[1]

\* The keys of groupby("month"), ascending
RECURSIVE SortedMonths_Descending(_)
SortedMonths_Descending(months) ==
    IF months = {} THEN <<>>
    ELSE LET first == CHOOSE m \in months : \A n \in months : m >= n
         IN  <<first>> \o SortedMonths_Descending(months \ {first})

RECURSIVE SortedMonths(_)
SortedMonths(months) ==
    IF months = {} THEN <<>>
    ELSE LET first == CHOOSE m \in months : \A n \in months : m <= n
         IN  <<first>> \o SortedMonths(months \ {first})

\* The rows of one month, in frame order
RECURSIVE RowsOfMonth(_, _)
RowsOfMonth(df, month) ==
    IF df = <<>> THEN <<>>
    ELSE IF MonthOf(df[1].time) = month
         THEN <<df[1]>> \o RowsOfMonth(Tail(df), month)
         ELSE RowsOfMonth(Tail(df), month)

\* Lines 246-255
MonthlyBreakdown(df, price_per_kwh) ==
    LET months == SortedMonths({MonthOf(df[i].time) : i \in 1..Len(df)})
    IN  [k \in 1..Len(months) |->
            LET rows == RowsOfMonth(df, months[k])
                total == KwhSum([i \in 1..Len(rows) |-> rows[i].total_energy_kwh])
            IN  [month |-> months[k],
                 pv_energy_kwh |->
                     KwhSum([i \in 1..Len(rows) |-> rows[i].pv_energy_kwh]),
                 wind_energy_kwh |->
                     KwhSum([i \in 1..Len(rows) |-> rows[i].wind_energy_kwh]),
                 total_energy_kwh |-> total,
                 revenue_inr |-> KwhTimes(total, price_per_kwh)]]

\* The 6.0 of pv_config.get("price_per_kwh", 6.0), in INR per kWh
DefaultPricePerKwh == 6

\* price_per_kwh = float(pv_config.get("price_per_kwh", 6.0)) (line 208)
PricePerKwh_Default(pv_config) == DefaultPricePerKwh

PricePerKwh(pv_config) == DictGet(pv_config, "price_per_kwh", DefaultPricePerKwh)

\* Lines 212-223 and 226-243: the figure as a data URI, or "" when rendering raised
PlotOrEmpty_Rendered(rendered) == "data:image/png;base64"

PlotOrEmpty(rendered) == IF rendered THEN "data:image/png;base64" ELSE ""

\* safe_json (lines 62-65) of a result whose numbers are all finite: the
\* values are Python floats, strings, lists and dicts, which
\* convert_numpy_types leaves as they are and the JSON round trip returns equal
SafeJson(results) == results

\* The function.  hourly_rendered / daily_rendered tell whether matplotlib
\* renders the two figures; calls lists the functions it calls, in order.
estimate_energy_potential(area_m2_arg, pv_config, wind_config, dc_voltage, api, hourly_rendered, daily_rendered) ==
    LET area_m2 == AreaFloat(area_m2_arg)
        fetched == fetch_hourly_weather("valid", api)
    IN  IF fetched.raised # "none"
        THEN [raised |-> fetched.raised, value |-> <<>>,
              calls |-> <<"fetch_hourly_weather">>]
        ELSE IF EmptyFrame(fetched.df)
        THEN [raised |-> "none",
              value |-> << EmptyResult(pv_config, wind_config, dc_voltage) >>,
              calls |-> <<"fetch_hourly_weather">>]
        ELSE LET df == WithEnergy(fetched.df, area_m2, pv_config, wind_config)
                 total_pv == KwhSum([i \in 1..Len(df) |-> df[i].pv_energy_kwh])
                 total_wind == KwhSum([i \in 1..Len(df) |-> df[i].wind_energy_kwh])
                 total_energy == KwhSum([i \in 1..Len(df) |-> df[i].total_energy_kwh])
                 price_per_kwh == PricePerKwh(pv_config)
                 revenue == KwhTimes(total_energy, price_per_kwh)
                 results ==
                     [total_energy_kwh |-> total_energy,
                      pv_energy_kwh |-> total_pv,
                      wind_energy_kwh |-> total_wind,
                      total_revenue |-> revenue,
                      monthly_breakdown |-> MonthlyBreakdown(df, price_per_kwh),
                      hourly_plot |-> PlotOrEmpty(hourly_rendered),
                      daily_plot |-> PlotOrEmpty(daily_rendered),
                      config |-> [pv |-> pv_config, wind |-> wind_config,
                                  dc_voltage |-> dc_voltage]]
             IN  [raised |-> "none",
                  value |-> << SafeJson(results) >>,
                  calls |-> <<"fetch_hourly_weather", "pv_energy_model_from_hourly",
                              "wind_energy_model_from_hourly">>]

-----------------------------------------------------------------------------
(* safe_json, and the end of estimate_energy_potential that calls it        *)
(*                                                                          *)
(* Here Python values carry their type, so that floats that are not finite  *)
(* can be told from the others:                                             *)
(*   <<"float", n>>  a finite float      <<"nan">>, <<"inf">>, <<"-inf">>   *)
(*   <<"str", s>>    <<"None">>    <<"list", sequence>>    <<"dict", map>>  *)
(* The results of estimate_energy_potential hold no numpy scalar, array,    *)
(* Series or Timestamp (the totals are float(...), lines 205-207;           *)
(* to_dict(orient="records") yields Python floats; month is a str, line     *)
(* 254), so those branches of convert_numpy_types are not modelled.         *)
(* Energies are in whole kWh, the price in whole INR per kWh.               *)

PyFloat(n) == <<"float", n>>

PyNaN == <<"nan">>

PyInf == <<"inf">>

PyNegInf == <<"-inf">>

PyNone == <<"None">>

\* -1, 0 or 1 for a float that is not NaN
FloatSign(x) ==
    IF x[1] = "inf" THEN 1
    ELSE IF x[1] = "-inf" THEN -1
    ELSE IF x[2] > 0 THEN 1 ELSE IF x[2] < 0 THEN -1 ELSE 0

\* IEEE addition and multiplication of two floats (rounding apart)
FloatAdd(a, b) ==
    IF a[1] = "nan" \/ b[1] = "nan" THEN PyNaN
    ELSE IF a[1] = "float" /\ b[1] = "float" THEN PyFloat(a[2] + b[2])
    ELSE IF a[1] = "float" THEN b
    ELSE IF b[1] = "float" THEN a
    ELSE IF a = b THEN a ELSE PyNaN

FloatMul(a, b) ==
    IF a[1] = "nan" \/ b[1] = "nan" THEN PyNaN
    ELSE IF a[1] = "float" /\ b[1] = "float" THEN PyFloat(a[2] * b[2])
    ELSE IF FloatSign(a) * FloatSign(b) = 0 THEN PyNaN
    ELSE IF FloatSign(a) * FloatSign(b) > 0 THEN PyInf ELSE PyNegInf

\* Series.sum(): NaN entries are skipped (skipna), the others added
RECURSIVE FloatSum(_)
FloatSum(series) ==
    IF series = <<>> THEN PyFloat(0)
    ELSE IF series[1][1] = "nan" THEN FloatSum(Tail(series))
    ELSE FloatAdd(series[1], FloatSum(Tail(series)))

\* pd.isna of a scalar (line 58)
PyIsNa(obj) == obj[1] \in {"nan", "None"}

\* Lines 42-60
RECURSIVE convert_numpy_types(_)
convert_numpy_types(obj) ==
    IF obj[1] = "dict"
    THEN <<"dict", [k \in DOMAIN obj[2] |-> convert_numpy_types(obj[2][k])]>>
    ELSE IF obj[1] = "list"
    THEN <<"list", [i \in 1..Len(obj[2]) |-> convert_numpy_types(obj[2][i])]>>
    ELSE IF PyIsNa(obj) THEN PyNone
    ELSE obj

\* json.dumps(obj, allow_nan=False) accepts obj: it holds no NaN and no
\* infinity (otherwise it raises ValueError)
RECURSIVE JsonDumpsAccepts(_)
JsonDumpsAccepts(obj) ==
    IF obj[1] = "dict"
    THEN \A k \in DOMAIN obj[2] : JsonDumpsAccepts(obj[2][k])
    ELSE IF obj[1] = "list"
    THEN \A i \in 1..Len(obj[2]) : JsonDumpsAccepts(obj[2][i])
    ELSE obj[1] \notin {"nan", "inf", "-inf"}

\* Lines 62-65.  json.loads(json.dumps(clean)) gives clean back: its dicts
\* have str keys and it holds lists, floats, strs and None only.
safe_json(obj) ==
    LET clean == convert_numpy_types(obj)
    IN  IF JsonDumpsAccepts(clean)
        THEN [raised |-> "none", value |-> <<clean>>]
        ELSE [raised |-> "ValueError", value |-> <<>>]

\* Lines 205-209, 246-255 and 285-294 on a frame whose rows lie in one month:
\* rows[i] holds the pv_energy_kwh and wind_energy_kwh of hour i.
JsonResults(rows, pv_config, wind_config, dc_voltage) ==
    LET pv == [i \in 1..Len(rows) |-> rows[i].pv_energy_kwh]
        wind == [i \in 1..Len(rows) |-> rows[i].wind_energy_kwh]
        total == [i \in 1..Len(rows) |-> FloatAdd(pv[i], wind[i])]
        total_pv == FloatSum(pv)
        total_wind == FloatSum(wind)
        total_energy == FloatSum(total)
        price_per_kwh == DictGet(pv_config[2], "price_per_kwh",
                                 PyFloat(DefaultPricePerKwh))
        revenue == FloatMul(total_energy, price_per_kwh)
        month == <<"dict", [month |-> <<"str", "2023-01">>,
                            pv_energy_kwh |-> total_pv,
                            wind_energy_kwh |-> total_wind,
                            total_energy_kwh |-> total_energy,
                            revenue_inr |-> FloatMul(total_energy, price_per_kwh)]>>
    IN  <<"dict", [total_energy_kwh |-> total_energy,
                   pv_energy_kwh |-> total_pv,
                   wind_energy_kwh |-> total_wind,
                   total_revenue |-> revenue,
                   monthly_breakdown |-> <<"list", <<month>> >>,
                   hourly_plot |-> <<"str", "">>,
                   daily_plot |-> <<"str", "">>,
                   config |-> <<"dict", [pv |-> pv_config, wind |-> wind_config,
                                         dc_voltage |-> PyFloat(dc_voltage)]>>]>>

-----------------------------------------------------------------------------
(* Specification of calculate_mixed_potential: the arguments are drawn in   *)
(* the initial state, the one action is the call.                           *)

\* Energies 0, 10, ..., 10 * MaxKwhStep (over KwhDen)
MaxKwhStep == 10

MixedKwh == {10 * k : k \in 0..MaxKwhStep}

\* The prices a PV configuration may carry
MixedConfigPrices == {4, 6}

\* Results of estimate_energy_potential: the energies, the revenue at the
\* price of the PV configuration, and that configuration
MixedEnergyResults ==
    {[pv_energy_kwh |-> p, wind_energy_kwh |-> w,
      total_revenue |-> (p + w) * price,
      config |-> [pv |-> [price_per_kwh |-> price]]] :
        p \in MixedKwh, w \in MixedKwh, price \in MixedConfigPrices}

\* Results of estimate_agri_revenue, and a mapping without "best_crop"
MixedCropResults ==
    {[best_crop |-> "None", max_revenue |-> 0]}
    \cup {[best_crop |-> c, max_revenue |-> r] : c \in {"Rice", "Wheat"}, r \in {40, 100}}
    \cup {[max_revenue |-> 40]}

MixedAreas == {0, 1}

InitMixed ==
    /\ mixed_args \in [energy_results : MixedEnergyResults,
                       crop_results : MixedCropResults,
                       area_ha : MixedAreas]
    /\ mixed_ret = <<>>
    /\ PvIdle /\ WindIdle /\ FetchIdle /\ EstIdle
    /\ JsonIdle /\ SoilIdle /\ CacheIdle
    /\ AgriIdle /\ CropIdle /\ ViewIdle /\ ReqsIdle

CallMixed ==
    /\ mixed_ret = <<>>
    /\ mixed_ret' = << calculate_mixed_potential(mixed_args.energy_results,
                                                 mixed_args.crop_results,
                                                 mixed_args.area_ha) >>
    /\ UNCHANGED <<mixed_args, pv_args, pv_ret, wind_args, wind_ret,
                   fetch_args, fetch_ret, est_args, est_ret>>
    /\ UNCHANGED <<json_vars, soil_vars, cache_vars>>
    /\ UNCHANGED <<agri_vars, crop_vars, view_vars, reqs, figures>>

NextMixed == CallMixed

SpecMixed == InitMixed /\ [][NextMixed]_vars

-----------------------------------------------------------------------------
(* Claims about calculate_mixed_potential *)

\* S, W, A of the call at hand, as numerators over KwhDen
MixedS == mixed_args.energy_results.pv_energy_kwh * 6
MixedW == mixed_args.energy_results.wind_energy_kwh * 6
MixedA == mixed_args.crop_results.max_revenue * KwhDen

MixedKinds == <<"Solar Only", "Wind Only", "Agriculture Only", "Solar + Wind",
                "Agrivoltaics (Solar + crop)", "Wind + Agriculture",
                "Mixed (Solar + Wind + Agri)">>

\* C1: calculate_mixed_potential returns exactly seven scenarios, in the order
\* Solar Only, Wind Only, Agriculture Only, Solar + Wind, Agrivoltaics,
\* Wind + Agriculture, Mixed, with revenues S, W, A, 0.9 S + W,
\* 0.6 S + 0.7 A, W + 0.95 A and 0.6 S + 0.65 A + W; for S = 100, W = 50,
\* A = 40 the four blends are 140, 88, 88 and 136.
C1_SevenScenarios ==
    mixed_ret # <<>> =>
        LET sc == mixed_ret[1].scenarios
            rev(i) == 100 * sc[i].revenue   \* over 100 * RevDen
            S == MixedS
            W == MixedW
            A == MixedA
        IN  /\ Len(sc) = 7
            /\ \A i \in 1..7 : sc[i].name[1] = MixedKinds[i]
            /\ rev(1) = BlendDen * 100 * S
            /\ rev(2) = BlendDen * 100 * W
            /\ rev(3) = BlendDen * 100 * A
            /\ rev(4) = BlendDen * (90 * S + 100 * W)
            /\ rev(5) = BlendDen * (60 * S + 70 * A)
            /\ rev(6) = BlendDen * (100 * W + 95 * A)
            /\ rev(7) = BlendDen * (60 * S + 65 * A + 100 * W)
            /\ (S = 100 * KwhDen /\ W = 50 * KwhDen /\ A = 40 * KwhDen) =>
                   /\ sc[4].revenue = 140 * RevDen
                   /\ sc[5].revenue = 88 * RevDen
                   /\ sc[6].revenue = 88 * RevDen
                   /\ sc[7].revenue = 136 * RevDen

C1_Witness ==
    /\ mixed_ret # <<>>
    /\ MixedS = 100 * KwhDen /\ MixedW = 50 * KwhDen /\ MixedA = 40 * KwhDen
    /\ mixed_ret[1].scenarios[4].revenue = 140 * RevDen

\* C2: best_scenario is one of the seven scenarios, its revenue is the
\* maximum over the seven, and among several scenarios with that maximum it
\* is the first in list order.
C2_BestIsFirstMax ==
    mixed_ret # <<>> =>
        LET sc == mixed_ret[1].scenarios
            best == mixed_ret[1].best_scenario
        IN  \E i \in 1..Len(sc) :
                /\ sc[i] = best
                /\ \A j \in 1..Len(sc) : sc[j].revenue <= best.revenue
                /\ \A j \in 1..(i - 1) : sc[j].revenue < best.revenue

\* A call in which two scenarios share the maximum (Solar Only and Solar + Wind)
C2_Witness ==
    /\ mixed_ret # <<>>
    /\ MixedW > 0
    /\ mixed_ret[1].scenarios[1].revenue = mixed_ret[1].scenarios[4].revenue
    /\ mixed_ret[1].best_scenario = mixed_ret[1].scenarios[1]

\* The energy results that differ from those of the call at hand in the
\* price of the PV configuration only (and so in total_revenue)
MixedSameEnergies ==
    {e \in MixedEnergyResults :
        /\ e.pv_energy_kwh = mixed_args.energy_results.pv_energy_kwh
        /\ e.wind_energy_kwh = mixed_args.energy_results.wind_energy_kwh}

\* C14: the scenario revenues are computed at the fixed price 6.0 per kWh and
\* do not depend on the price_per_kwh of the PV configuration: energy results
\* with the same pv_energy_kwh and wind_energy_kwh but another configured
\* price, and so another total_revenue, give the same scenario set for the
\* same agri result.
C14_PriceFixedAtSix ==
    mixed_ret # <<>> =>
        /\ mixed_ret[1].scenarios[1].revenue = MixedS * BlendDen
        /\ mixed_ret[1].scenarios[2].revenue = MixedW * BlendDen
        /\ \A e \in MixedSameEnergies :
               calculate_mixed_potential(e, mixed_args.crop_results,
                                         mixed_args.area_ha) = mixed_ret[1]

\* Energy results made at the price 4: the revenues are those at 6, and the
\* results made at 6 have another total_revenue
C14_Witness ==
    /\ mixed_ret # <<>>
    /\ mixed_args.energy_results.config.pv.price_per_kwh = 4
    /\ mixed_args.energy_results.pv_energy_kwh = 100
    /\ mixed_args.energy_results.wind_energy_kwh = 50
    /\ mixed_ret[1].scenarios[1].revenue = 600 * BlendDen
    /\ \E e \in MixedSameEnergies :
           e.total_revenue # mixed_args.energy_results.total_revenue

\* C15: the result depends on the energy and the agri result only: a call
\* with the same two mappings and any other area_ha returns the same scenario
\* set, and a call leaves both argument mappings as they were.
C15_PureFunction ==
    /\ [](mixed_ret # <<>> =>
            \A a \in MixedAreas :
                calculate_mixed_potential(mixed_args.energy_results,
                                          mixed_args.crop_results, a)
                    = mixed_ret[1])
    /\ [][mixed_ret' # mixed_ret =>
              /\ mixed_args'.energy_results = mixed_args.energy_results
              /\ mixed_args'.crop_results = mixed_args.crop_results]_vars

\* A call on one hectare with a positive agri revenue
C15_Witness ==
    /\ mixed_ret # <<>>
    /\ mixed_args.area_ha = 1
    /\ mixed_args.crop_results.max_revenue = 100
    /\ mixed_ret[1].scenarios[3].revenue = 100 * KwhDen * BlendDen
    /\ calculate_mixed_potential(mixed_args.energy_results,
                                 mixed_args.crop_results, 0) = mixed_ret[1]

-----------------------------------------------------------------------------
(* Specification of pv_energy_model_from_hourly *)

MaxLen == 2

\* Areas -1 .. MaxPvArea, in 100 m2
MaxPvArea == 10

PvAreas == -1..MaxPvArea

\* Irradiance samples in 100 W/m2: missing, negative, 0, 500 and 1000 W/m2
IrrSamples == {NaN, <<-5>>, <<0>>, <<5>>, <<10>>}

\* Twelve daylight hours at 500 W/m2
DaylightSeries == [i \in 1..12 |-> <<5>>]

PvSeries == SeqsUpTo(IrrSamples, MaxLen) \cup {DaylightSeries}

\* The configuration the view builds from the model defaults (models.py
\* 66-69), a configuration without keys, one at the upper end of (0,1], one
\* in the middle and one with a negative efficiency
PvConfigs ==
    { [efficiency |-> 20, performance_ratio |-> 16, land_coverage |-> 12,
       system_efficiency |-> 19],
      [dc_voltage |-> 48],
      [efficiency |-> 100, performance_ratio |-> 20, land_coverage |-> 20,
       system_efficiency |-> 20],
      [efficiency |-> 15, performance_ratio |-> 10, land_coverage |-> 5,
       system_efficiency |-> 18],
      [efficiency |-> -20, performance_ratio |-> 16, land_coverage |-> 12,
       system_efficiency |-> 19] }

InitPv ==
    /\ pv_args \in [irradiance_wm2_series : PvSeries, area_m2 : PvAreas,
                    pv_cfg : PvConfigs]
    /\ pv_ret = <<>>
    /\ MixedIdle /\ WindIdle /\ FetchIdle /\ EstIdle
    /\ JsonIdle /\ SoilIdle /\ CacheIdle
    /\ AgriIdle /\ CropIdle /\ ViewIdle /\ ReqsIdle

CallPv ==
    /\ pv_ret = <<>>
    /\ pv_ret' = << pv_energy_model_from_hourly(pv_args.irradiance_wm2_series,
                                                pv_args.area_m2, pv_args.pv_cfg) >>
    /\ UNCHANGED <<mixed_args, mixed_ret, pv_args, wind_args, wind_ret,
                   fetch_args, fetch_ret, est_args, est_ret>>
    /\ UNCHANGED <<json_vars, soil_vars, cache_vars>>
    /\ UNCHANGED <<agri_vars, crop_vars, view_vars, reqs, figures>>

NextPv == CallPv

SpecPv == InitPv /\ [][NextPv]_vars

-----------------------------------------------------------------------------
(* Claims about pv_energy_model_from_hourly *)

\* The configuration values the call at hand uses
PvEff == DictGet(pv_args.pv_cfg, "efficiency", 18)
PvPr == DictGet(pv_args.pv_cfg, "performance_ratio", 15)
PvSysEff == DictGet(pv_args.pv_cfg, "system_efficiency", 19)
PvLandCov == DictGet(pv_args.pv_cfg, "land_coverage", 20)

\* C6: for every hour with an irradiance sample, on an area > 0, the result
\* is (irradiance/1000) * (area_m2 * land_coverage) * efficiency *
\* performance_ratio * system_efficiency, one value per sample in the order
\* of the samples; 1000 m2, land_coverage 0.60, efficiency 0.20,
\* performance_ratio 0.80, system_efficiency 0.95 and 500 W/m2 give 45.6 kWh
\* per hour and 547.2 kWh over twelve such hours.
C6_PvFormula ==
    pv_ret # <<>> =>
        LET series == pv_args.irradiance_wm2_series
            area == pv_args.area_m2
            out == pv_ret[1]
        IN  /\ Len(out) = Len(series)
            /\ \A i \in 1..Len(series) :
                   (area > 0 /\ ~IsNaN(series[i])) =>
                       out[i] = series[i][1] * area * PvLandCov * PvEff
                                    * PvPr * PvSysEff
            /\ ( /\ area = 10 /\ PvLandCov = 12 /\ PvEff = 20 /\ PvPr = 16
                 /\ PvSysEff = 19 ) =>
                   /\ \A i \in 1..Len(series) :
                          series[i] = <<5>> => 10 * out[i] = 456 * PvDen
                   /\ series = DaylightSeries => 10 * SumSeq(out) = 5472 * PvDen

C6_Witness ==
    /\ pv_ret # <<>>
    /\ pv_args.irradiance_wm2_series = DaylightSeries
    /\ pv_args.area_m2 = 10
    /\ PvLandCov = 12 /\ PvEff = 20 /\ PvPr = 16 /\ PvSysEff = 19
    /\ 10 * SumSeq(pv_ret[1]) = 5472 * PvDen

\* efficiency, performance_ratio, system_efficiency, land_coverage in (0,1]
PvCfgInUnitInterval ==
    /\ PvEff > 0 /\ PvEff <= 100
    /\ PvPr > 0 /\ PvPr <= 20
    /\ PvSysEff > 0 /\ PvSysEff <= 20
    /\ PvLandCov > 0 /\ PvLandCov <= 20

NonNegativeIrr(series) ==
    \A i \in 1..Len(series) : IsNaN(series[i]) \/ series[i][1] >= 0

\* s2 is s1 with some samples increased
IrrIncreased(s1, s2) ==
    /\ Len(s1) = Len(s2)
    /\ \A i \in 1..Len(s1) :
           \/ s1[i] = s2[i]
           \/ ~IsNaN(s1[i]) /\ ~IsNaN(s2[i]) /\ s1[i][1] <= s2[i][1]

\* C7: with efficiency, performance_ratio, system_efficiency and
\* land_coverage in (0,1] and non-negative irradiance, no output value is
\* negative, and no output value decreases when the area is increased
\* (also from area <= 0 to area > 0) or when the irradiance is increased.
C7_PvMonotone ==
    (pv_ret # <<>> /\ PvCfgInUnitInterval
       /\ NonNegativeIrr(pv_args.irradiance_wm2_series)) =>
        LET series == pv_args.irradiance_wm2_series
            area == pv_args.area_m2
            cfg == pv_args.pv_cfg
            out == pv_ret[1]
        IN  /\ \A i \in 1..Len(out) : out[i] >= 0
            /\ \A a2 \in PvAreas :
                   a2 >= area =>
                       \A i \in 1..Len(out) :
                           pv_energy_model_from_hourly(series, a2, cfg)[i] >= out[i]
            /\ \A s2 \in PvSeries :
                   IrrIncreased(series, s2) =>
                       \A i \in 1..Len(out) :
                           pv_energy_model_from_hourly(s2, area, cfg)[i] >= out[i]

\* A call on a negative area with positive irradiance: the larger areas give more
C7_Witness ==
    /\ pv_ret # <<>> /\ PvCfgInUnitInterval
    /\ pv_args.area_m2 < 0
    /\ pv_args.irradiance_wm2_series = << <<5>>, <<10>> >>
    /\ pv_ret[1] = <<0, 0>>
    /\ pv_energy_model_from_hourly(pv_args.irradiance_wm2_series, 1,
                                   pv_args.pv_cfg)[1] > 0

\* C16: for area_m2 <= 0 the result is a series of zeros as long as the
\* input (of length 0 for an empty input); for area_m2 > 0 a missing (NaN)
\* irradiance sample gives 0 for its hour and every other hour has the value
\* of the formula.
C16_PvDegenerate ==
    pv_ret # <<>> =>
        LET series == pv_args.irradiance_wm2_series
        IN  /\ Len(pv_ret[1]) = Len(series)
            /\ \A i \in 1..Len(series) :
                   IF pv_args.area_m2 <= 0 \/ IsNaN(series[i])
                   THEN pv_ret[1][i] = 0
                   ELSE pv_ret[1][i] =
                            series[i][1] * pv_args.area_m2 * PvLandCov
                                * PvEff * PvPr * PvSysEff

\* A positive area, a missing sample before a sample of 500 W/m2
C16_Witness ==
    /\ pv_ret # <<>>
    /\ pv_args.area_m2 = 10
    /\ pv_args.irradiance_wm2_series = <<NaN, <<5>>>>
    /\ pv_ret[1][1] = 0
    /\ pv_ret[1][2] > 0

-----------------------------------------------------------------------------
(* Specification of wind_energy_model_from_hourly *)

\* Wind speeds -1 .. MaxSpeed m/s
MaxSpeed == 6

WsSamples == {NaN} \cup {<<v>> : v \in -1..MaxSpeed}

WsSeries == SeqsUpTo(WsSamples, MaxLen)

\* A turbine of 2 m rotor diameter with thresholds 2 / 4 / 5 m/s
Turbine(rated_power_kw) ==
    [rated_power_kw |-> rated_power_kw, rotor_diameter_m |-> 2,
     hub_height_m |-> 20, cut_in_ms |-> 2, rated_ws_ms |-> 4,
     cut_out_ms |-> 5, system_efficiency |-> 18]

\* Configurations as the view builds them from the form's free float fields
\* (views.py 115-124; cp is never passed), and two with absent keys.  The
\* rated powers 50 W and 4 W lie above and below the cubic power at cut-in.
WindConfigs ==
    { Turbine(50), Turbine(4), Turbine(0), Turbine(-5),
      [Turbine(50) EXCEPT !.rotor_diameter_m = 0],
      [Turbine(50) EXCEPT !.rotor_diameter_m = -2],
      [Turbine(50) EXCEPT !.cut_in_ms = 4, !.rated_ws_ms = 2],
      [Turbine(50) EXCEPT !.cut_in_ms = 1, !.rated_ws_ms = 5, !.cut_out_ms = 3],
      [Turbine(50) EXCEPT !.cut_in_ms = -2],
      [rated_power_kw |-> 50, rotor_diameter_m |-> 2],
      [rated_power_kw |-> 50, cut_in_ms |-> 2, rated_ws_ms |-> 4, cut_out_ms |-> 5],
      [rotor_diameter_m |-> 2, cut_in_ms |-> 2, rated_ws_ms |-> 4, cut_out_ms |-> 5],
      [hub_height_m |-> 20] }

InitWind ==
    /\ wind_args \in [ws_series : WsSeries, wind_cfg : WindConfigs]
    /\ wind_ret = <<>>
    /\ MixedIdle /\ PvIdle /\ FetchIdle /\ EstIdle
    /\ JsonIdle /\ SoilIdle /\ CacheIdle
    /\ AgriIdle /\ CropIdle /\ ViewIdle /\ ReqsIdle

CallWind ==
    /\ wind_ret = <<>>
    /\ wind_ret' = << wind_energy_model_from_hourly(wind_args.ws_series,
                                                    wind_args.wind_cfg) >>
    /\ UNCHANGED <<mixed_args, mixed_ret, pv_args, pv_ret, wind_args,
                   fetch_args, fetch_ret, est_args, est_ret>>
    /\ UNCHANGED <<json_vars, soil_vars, cache_vars>>
    /\ UNCHANGED <<agri_vars, crop_vars, view_vars, reqs, figures>>

NextWind == CallWind

SpecWind == InitWind /\ [][NextWind]_vars

-----------------------------------------------------------------------------
(* Claims about wind_energy_model_from_hourly *)

\* The configuration values the call at hand uses
WRotor == DictGet(wind_args.wind_cfg, "rotor_diameter_m", 0)
WRated == DictGet(wind_args.wind_cfg, "rated_power_kw", 0)
WCutIn == DictGet(wind_args.wind_cfg, "cut_in_ms", 3)
WRatedWs == DictGet(wind_args.wind_cfg, "rated_ws_ms", 12)
WCutOut == DictGet(wind_args.wind_cfg, "cut_out_ms", 25)
WCp == DictGet(wind_args.wind_cfg, "cp", 7)
WSysEff == DictGet(wind_args.wind_cfg, "system_efficiency", 19)

\* 0.5 * 1.225 * pi*(rotor_diameter/2)^2 * v^3 * cp * system_efficiency, over WindDen
WCubic(v) == 49 * 22 * WRotor * WRotor * v * v * v * WCp * WSysEff

\* The i-th sample of the call at hand is a wind speed
WHasSpeed(i) == ~IsNaN(wind_args.ws_series[i])

WSpeed(i) == wind_args.ws_series[i][1]

\* The WindConfig of the data model: rated_power_kw >= 0, rotor_diameter_m
\* >= 0, 0 <= cut_in < rated_ws < cut_out, cp in (0,1), system_efficiency
\* in (0,1]
WindCfgInDataModel ==
    /\ WRated >= 0 /\ WRotor >= 0
    /\ 0 <= WCutIn /\ WCutIn < WRatedWs /\ WRatedWs < WCutOut
    /\ 0 < WCp /\ WCp < 20
    /\ 0 < WSysEff /\ WSysEff <= 20

\* C3: for every wind speed v < cut_in or v > cut_out, and every wind
\* configuration, the output of that hour is exactly 0.
C3_ZeroOutsideEnvelope ==
    wind_ret # <<>> =>
        \A i \in 1..Len(wind_args.ws_series) :
            (WHasSpeed(i) /\ (WSpeed(i) < WCutIn \/ WSpeed(i) > WCutOut)) =>
                wind_ret[1][i] = 0

\* Above cut-out with a turbine that would otherwise produce power
C3_Witness ==
    /\ wind_ret # <<>>
    /\ ~WindDegenerate(WRotor, WRated)
    /\ \E i \in 1..Len(wind_args.ws_series) :
           /\ WHasSpeed(i) /\ WSpeed(i) > WCutOut /\ WSpeed(i) >= WCutIn
           /\ WCubic(WSpeed(i)) > 0
           /\ wind_ret[1][i] = 0

\* C4: for every wind speed v with rated_ws <= v <= cut_out the output of
\* that hour never exceeds rated_power_kw kWh (rated_power_kw >= 0), and for
\* a WindConfig of the data model it is min(cubic power, rated power).
C4_CappedAtRated ==
    wind_ret # <<>> =>
        \A i \in 1..Len(wind_args.ws_series) :
            (WHasSpeed(i) /\ WRatedWs <= WSpeed(i) /\ WSpeed(i) <= WCutOut) =>
                /\ WRated >= 0 => wind_ret[1][i] <= WRated * WindDen
                /\ WindCfgInDataModel =>
                       wind_ret[1][i] = Min(WCubic(WSpeed(i)), WRated * WindDen)

\* A rated-region hour in which the cap binds
C4_Witness ==
    /\ wind_ret # <<>> /\ WindCfgInDataModel
    /\ \E i \in 1..Len(wind_args.ws_series) :
           /\ WHasSpeed(i) /\ WRatedWs <= WSpeed(i) /\ WSpeed(i) <= WCutOut
           /\ WCubic(WSpeed(i)) > WRated * WindDen
           /\ WRated > 0
           /\ wind_ret[1][i] = WRated * WindDen

\* C5: for every wind speed v with cut_in <= v < rated_ws (v = cut_in
\* included), on a turbine of the data model with rated_power_kw > 0, the
\* output of that hour is the cubic power divided by 1000, with no cap, also
\* when that value is larger than rated_power_kw.
C5_RampUncapped ==
    wind_ret # <<>> =>
        \A i \in 1..Len(wind_args.ws_series) :
            ( /\ WHasSpeed(i) /\ WCutIn <= WSpeed(i) /\ WSpeed(i) < WRatedWs
              /\ WindCfgInDataModel /\ WRated > 0 ) =>
                wind_ret[1][i] = WCubic(WSpeed(i))

\* An hour at v = cut_in whose cubic power is above the rated power
C5_Witness ==
    /\ wind_ret # <<>> /\ WindCfgInDataModel /\ WRated > 0
    /\ \E i \in 1..Len(wind_args.ws_series) :
           /\ WHasSpeed(i) /\ WSpeed(i) = WCutIn /\ WSpeed(i) < WRatedWs
           /\ WCubic(WSpeed(i)) > WRated * WindDen
           /\ wind_ret[1][i] = WCubic(WSpeed(i))

\* The configuration at hand has no positive rotor diameter, or no positive
\* rated power: the key is absent or its value is <= 0
WNoRotor ==
    \/ "rotor_diameter_m" \notin DOMAIN wind_args.wind_cfg
    \/ wind_args.wind_cfg.rotor_diameter_m <= 0

WNoRatedPower ==
    \/ "rated_power_kw" \notin DOMAIN wind_args.wind_cfg
    \/ wind_args.wind_cfg.rated_power_kw <= 0

\* C17: the result is as long as the input; it is all zeros when
\* rotor_diameter_m <= 0 or rated_power_kw <= 0 or one of the two keys is
\* absent; a missing wind-speed sample gives 0 for its hour; and no value of
\* any result is negative.
C17_WindDegenerate ==
    wind_ret # <<>> =>
        /\ Len(wind_ret[1]) = Len(wind_args.ws_series)
        /\ \A i \in 1..Len(wind_args.ws_series) :
               /\ wind_ret[1][i] >= 0
               /\ (WNoRotor \/ WNoRatedPower \/ ~WHasSpeed(i)) => wind_ret[1][i] = 0

\* A configuration without rated_power_kw on a wind in the ramp region
C17_Witness ==
    /\ wind_ret # <<>>
    /\ "rated_power_kw" \notin DOMAIN wind_args.wind_cfg
    /\ "rotor_diameter_m" \in DOMAIN wind_args.wind_cfg
    /\ wind_args.wind_cfg.rotor_diameter_m > 0
    /\ wind_args.ws_series = << <<3>>, NaN >>
    /\ wind_ret[1] = <<0, 0>>

-----------------------------------------------------------------------------
(* Specification of fetch_hourly_weather *)

\* Two hours of one month and one hour of the next
Timestamps == {<<1, 1>>, <<1, 2>>, <<2, 1>>}

\* 500 W/m2 or missing; 3 m/s or missing
ApiIrradiance == {NaN, <<5>>}

ApiWindSpeed == {NaN, <<3>>}

\* "hourly" objects with up to MaxLen times, in any order and with repeats,
\* and value arrays that may be shorter than the time array
HourlyBodies ==
    UNION { [kind : {"hourly"},
             time : [1..n -> Timestamps],
             shortwave_radiation : SeqsUpTo(ApiIrradiance, n),
             wind_speed_10m : SeqsUpTo(ApiWindSpeed, n)] : n \in 0..MaxLen }

OtherBodies ==
    {[kind |-> k] : k \in {"not_json", "null", "no_hourly", "empty_hourly",
                           "hourly_not_mapping", "hourly_bad_values"}}

ApiResponses ==
    {[kind |-> "network_error"], [kind |-> "timeout"]}
    \cup {[kind |-> "http", status |-> s, body |-> [kind |-> "not_json"]] :
             s \in {404, 500}}
    \cup {[kind |-> "http", status |-> 200, body |-> b] :
             b \in HourlyBodies \cup OtherBodies}

Requests == {"valid", "bad_argument"}

InitFetch ==
    /\ fetch_args \in [request : Requests, api : ApiResponses]
    /\ fetch_ret = <<>>
    /\ MixedIdle /\ PvIdle /\ WindIdle /\ EstIdle
    /\ JsonIdle /\ SoilIdle /\ CacheIdle
    /\ AgriIdle /\ CropIdle /\ ViewIdle /\ ReqsIdle

CallFetch ==
    /\ fetch_ret = <<>>
    /\ fetch_ret' = << fetch_hourly_weather(fetch_args.request, fetch_args.api) >>
    /\ UNCHANGED <<mixed_args, mixed_ret, pv_args, pv_ret, wind_args, wind_ret,
                   fetch_args, est_args, est_ret>>
    /\ UNCHANGED <<json_vars, soil_vars, cache_vars>>
    /\ UNCHANGED <<agri_vars, crop_vars, view_vars, reqs, figures>>

NextFetch == CallFetch

SpecFetch == InitFetch /\ [][NextFetch]_vars

-----------------------------------------------------------------------------
(* Claims about fetch_hourly_weather *)

\* The failures of the request: an argument that does not convert, a network
\* error, a timeout, a non-200 response, an undecodable body, a payload
\* without a non-empty "hourly" object, a malformed "hourly" object
FetchFailure(request, api) ==
    \/ request # "valid"
    \/ api.kind \in {"network_error", "timeout"}
    \/ api.kind = "http" /\ api.status # 200
    \/ api.kind = "http" /\ api.status = 200
         /\ api.body.kind \in {"not_json", "null", "no_hourly", "empty_hourly",
                               "hourly_not_mapping", "hourly_bad_values"}

\* C10: fetch_hourly_weather never raises; on a network error, a timeout, a
\* non-200 response, an undecodable body, a payload without a non-empty
\* "hourly" object or a malformed "hourly" object it returns an empty series.
C10_FetchNeverRaises ==
    fetch_ret # <<>> =>
        /\ fetch_ret[1].raised = "none"
        /\ FetchFailure(fetch_args.request, fetch_args.api) =>
               fetch_ret[1].df = <<>>

\* A malformed "hourly" object answered with an empty series
C10_Witness ==
    /\ fetch_ret # <<>>
    /\ fetch_args.request = "valid"
    /\ fetch_args.api.kind = "http" /\ fetch_args.api.status = 200
    /\ fetch_args.api.body.kind = "hourly_bad_values"
    /\ fetch_ret[1] = [raised |-> "none", df |-> <<>>]

\* Timestamp a is earlier than timestamp b
TimeBefore(a, b) == a[1] < b[1] \/ (a[1] = b[1] /\ a[2] < b[2])

\* C11: every non-empty series returned by fetch_hourly_weather has strictly
\* increasing timestamps (ordered, none twice), whatever order and repeats the
\* "time" array of the payload has, and no row in which both irradiance and
\* wind speed are missing.
C11_StrictlyIncreasingTimes ==
    (fetch_ret # <<>> /\ fetch_ret[1].df # <<>>) =>
        LET df == fetch_ret[1].df
        IN  /\ \A i, j \in 1..Len(df) :
                   i < j => TimeBefore(df[i].time, df[j].time)
            /\ \A i \in 1..Len(df) : ~AllMissing(df[i])

-----------------------------------------------------------------------------
(* Specification of a sequence of fetch_hourly_weather calls: time passes   *)
(* in steps of TickSeconds, and at any time a call is made for one of the   *)
(* requests, which the network answers in one of the ways of                *)
(* CacheApiResponses.                                                       *)

TickSeconds == 1800

MaxTicks == 4

MaxCalls == 3

\* Two requests (each its own latitude, longitude and dates), and arguments
\* that do not convert
CacheKeys == {"site_a", "site_b"}

CacheRequests == CacheKeys \cup {"bad_argument"}

CacheHourly ==
    [kind |-> "hourly", time |-> << <<1, 1>> >>,
     shortwave_radiation |-> << <<5>> >>, wind_speed_10m |-> << <<3>> >>]

CacheApiResponses ==
    { [kind |-> "network_error"], [kind |-> "timeout"],
      [kind |-> "http", status |-> 500, body |-> [kind |-> "not_json"]],
      [kind |-> "http", status |-> 200, body |-> [kind |-> "not_json"]],
      [kind |-> "http", status |-> 200, body |-> CacheHourly] }

InitFetchCache ==
    /\ clock = 0
    /\ cache = [k \in CacheKeys |-> <<>>]
    /\ net_log = {}
    /\ cache_call = <<>>
    /\ MixedIdle /\ PvIdle /\ WindIdle /\ FetchIdle /\ EstIdle
    /\ JsonIdle /\ SoilIdle
    /\ AgriIdle /\ CropIdle /\ ViewIdle /\ ReqsIdle

Tick ==
    /\ clock < MaxTicks * TickSeconds
    /\ clock' = clock + TickSeconds
    /\ UNCHANGED <<cache, net_log, cache_call>>
    /\ UNCHANGED <<mixed_args, mixed_ret, pv_args, pv_ret, wind_args, wind_ret,
                   fetch_args, fetch_ret, est_args, est_ret, json_vars, soil_vars>>
    /\ UNCHANGED <<agri_vars, crop_vars, view_vars, reqs, figures>>

\* The number of calls made so far
CallNumber == IF cache_call = <<>> THEN 0 ELSE cache_call[1].number

CallFetchCached ==
    /\ CallNumber < MaxCalls
    /\ \E key \in CacheRequests, api \in CacheApiResponses :
           LET call == FetchThroughCache(cache, clock, key, api)
           IN  /\ cache' = call.entries
               /\ net_log' = IF call.stored
                             THEN net_log \cup {[request |-> key, at |-> clock]}
                             ELSE net_log
               /\ cache_call' =
                      << [number |-> CallNumber + 1,
                          request |-> key, at |-> clock,
                          requests |-> call.requests, ret |-> call.ret] >>
    /\ UNCHANGED clock
    /\ UNCHANGED <<mixed_args, mixed_ret, pv_args, pv_ret, wind_args, wind_ret,
                   fetch_args, fetch_ret, est_args, est_ret, json_vars, soil_vars>>
    /\ UNCHANGED <<agri_vars, crop_vars, view_vars, reqs, figures>>

NextFetchCache == Tick \/ CallFetchCached

SpecFetchCache == InitFetchCache /\ [][NextFetchCache]_vars

-----------------------------------------------------------------------------
(* Claims about the response cache *)

\* The times at which a 200 response for the request was got from the
\* network and cached
CachedAt(request) == {e.at : e \in {x \in net_log : x.request = request}}

\* C19: a call sends at most one request over the network (none is repeated
\* after a failure); it sends none when a 200 response for the same request
\* was cached less than 3600 seconds before it; and when every such response
\* was cached more than 3600 seconds before it, it sends a request again.
C19_CacheWithinTtl ==
    [][cache_call' # cache_call =>
          LET call == cache_call'[1]
              prior == CachedAt(call.request)
          IN  /\ call.requests <= 1
              /\ (\E t \in prior : call.at - t < 3600) => call.requests = 0
              /\ (prior # {} /\ \A t \in prior : call.at - t > 3600)
                     => call.requests = 1]_vars

\* The third call for a request: cached at 0, answered from the cache since,
\* and sent over the network again at 5400
C19_Witness ==
    /\ cache_call # <<>>
    /\ cache_call[1].number = 3
    /\ cache_call[1].request = "site_a"
    /\ cache_call[1].at = 5400
    /\ cache_call[1].requests = 1
    /\ [request |-> "site_a", at |-> 0] \in net_log
    /\ [request |-> "site_a", at |-> 1800] \notin net_log
    /\ cache["site_a"] # <<>> /\ cache["site_a"][1].at = 5400

-----------------------------------------------------------------------------
(* Specification of estimate_energy_potential *)

EstAreas == {<<"none">>, <<"text">>, <<"num", 0>>, <<"num", 10>>}

\* The PV configuration the view passes (views.py 109-114), and one with a price
EstPvConfigs ==
    { [efficiency |-> 20, performance_ratio |-> 16, land_coverage |-> 12,
       system_efficiency |-> 19],
      [efficiency |-> 20, performance_ratio |-> 16, land_coverage |-> 12,
       system_efficiency |-> 19, price_per_kwh |-> 4] }

EstWindConfigs == {Turbine(50), [Turbine(50) EXCEPT !.rotor_diameter_m = 0]}

\* dc_voltage = 48.0
DcVoltage == 48

InitEstimate ==
    /\ est_args \in [area_m2 : EstAreas, pv_config : EstPvConfigs,
                     wind_config : EstWindConfigs, api : ApiResponses,
                     hourly_rendered : BOOLEAN, daily_rendered : BOOLEAN]
    /\ est_ret = <<>>
    /\ MixedIdle /\ PvIdle /\ WindIdle /\ FetchIdle
    /\ JsonIdle /\ SoilIdle /\ CacheIdle
    /\ AgriIdle /\ CropIdle /\ ViewIdle /\ ReqsIdle

CallEstimate ==
    /\ est_ret = <<>>
    /\ est_ret' = << estimate_energy_potential(
                        est_args.area_m2, est_args.pv_config, est_args.wind_config,
                        DcVoltage, est_args.api, est_args.hourly_rendered,
                        est_args.daily_rendered) >>
    /\ UNCHANGED <<mixed_args, mixed_ret, pv_args, pv_ret, wind_args, wind_ret,
                   fetch_args, fetch_ret, est_args>>
    /\ UNCHANGED <<json_vars, soil_vars, cache_vars>>
    /\ UNCHANGED <<agri_vars, crop_vars, view_vars, reqs, figures>>

NextEstimate == CallEstimate

SpecEstimate == InitEstimate /\ [][NextEstimate]_vars

-----------------------------------------------------------------------------
(* Claims about estimate_energy_potential *)

\* The call at hand has returned a result
EstReturned == est_ret # <<>> /\ est_ret[1].raised = "none"

EstResult == est_ret[1].value[1]

\* The weather series the call at hand fetched
EstSeries == fetch_hourly_weather("valid", est_args.api).df

C9_EmptySeriesZeroResult ==
    (est_ret # <<>> /\ EstSeries = <<>>) =>
        /\ est_ret[1].raised = "none"
        /\ est_ret[1].calls = <<"fetch_hourly_weather">>
        /\ EstResult.total_energy_kwh = <<0, 0>>
        /\ EstResult.pv_energy_kwh = <<0, 0>>
        /\ EstResult.wind_energy_kwh = <<0, 0>>
        /\ EstResult.total_revenue = <<0, 0>>
        /\ EstResult.monthly_breakdown = <<>>
        /\ EstResult.config.pv = est_args.pv_config
        /\ EstResult.config.wind = est_args.wind_config

\* An empty series from a payload all of whose rows miss both values, on a
\* positive area
C9_Witness ==
    /\ est_ret # <<>>
    /\ est_args.api.kind = "http" /\ est_args.api.status = 200
    /\ est_args.api.body.kind = "hourly"
    /\ Len(est_args.api.body.time) = 2
    /\ EstSeries = <<>>
    /\ est_args.area_m2 = <<"num", 10>>
    /\ EstResult.total_revenue = <<0, 0>>
    /\ EstResult.config.pv = est_args.pv_config

\* The hourly records of the call at hand: the fetched series with the
\* energies of the PV and the wind model
EstHourly ==
    WithEnergy(EstSeries, AreaFloat(est_args.area_m2), est_args.pv_config,
               est_args.wind_config)

\* The sum of the energies vals[i] over the rows i in rows
RECURSIVE KwhSumOver(_, _)
KwhSumOver(vals, rows) ==
    IF rows = {} THEN <<0, 0>>
    ELSE LET i == CHOOSE r \in rows : TRUE
         IN  KwhAdd(vals[i], KwhSumOver(vals, rows \ {i}))

\* The rows of the fetched series that lie in month m
EstRowsIn(m) == {i \in 1..Len(EstSeries) : EstSeries[i].time[1] = m}

\* C12: monthly_breakdown has exactly one entry per calendar month that holds
\* at least one weather sample and none for any other month, the entries are
\* in chronological order, and the pv, wind and total of an entry are the sums
\* of the hourly values of its month.
C12_MonthlyBreakdown ==
    EstReturned =>
        LET mb == EstResult.monthly_breakdown
        IN  /\ {mb[k].month : k \in 1..Len(mb)} =
                   {EstSeries[i].time[1] : i \in 1..Len(EstSeries)}
            /\ \A k, l \in 1..Len(mb) : k < l => mb[k].month < mb[l].month
            /\ \A k \in 1..Len(mb) :
                   LET rows == EstRowsIn(mb[k].month)
                   IN  /\ mb[k].pv_energy_kwh =
                              KwhSumOver([i \in 1..Len(EstHourly) |->
                                             EstHourly[i].pv_energy_kwh], rows)
                       /\ mb[k].wind_energy_kwh =
                              KwhSumOver([i \in 1..Len(EstHourly) |->
                                             EstHourly[i].wind_energy_kwh], rows)
                       /\ mb[k].total_energy_kwh =
                              KwhSumOver([i \in 1..Len(EstHourly) |->
                                             EstHourly[i].total_energy_kwh], rows)

\* A payload whose later month comes first: two entries, the earlier month
\* first, each with the energy of its one hour
C12_Witness ==
    /\ EstReturned
    /\ Len(EstSeries) = 2
    /\ EstSeries[1].time = <<2, 1>> /\ EstSeries[2].time = <<1, 1>>
    /\ Len(EstResult.monthly_breakdown) = 2
    /\ EstResult.monthly_breakdown[1].month = 1
    /\ EstResult.monthly_breakdown[2].month = 2
    /\ EstResult.monthly_breakdown[1].pv_energy_kwh[1] > 0
    /\ EstResult.monthly_breakdown[2].wind_energy_kwh[2] > 0

\* The price of the call at hand: the PV configuration's price_per_kwh, 6.0
\* when it has none
EstPrice ==
    IF "price_per_kwh" \in DOMAIN est_args.pv_config
    THEN est_args.pv_config.price_per_kwh ELSE 6

-----------------------------------------------------------------------------
(* Specification of the end of estimate_energy_potential: the hourly        *)
(* energies are drawn in the initial state, the one action builds the       *)
(* results and returns safe_json of them.                                   *)

\* The PV energy of an hour.  It is infinite when the irradiance of the hour
\* is: the payload's JSON may hold 1e999 or -1e999, which json reads as
\* inf and -inf.  It is never NaN (line 138 fills NaN with 0.0).
JsonHourPv == {PyFloat(0), PyFloat(5), PyInf, PyNegInf}

JsonHourWind == {PyFloat(0), PyFloat(3)}

JsonRows ==
    UNION { [1..n -> [pv_energy_kwh : JsonHourPv, wind_energy_kwh : JsonHourWind]] :
              n \in 1..MaxLen }

\* The PV configuration of the view, and one with a price
JsonPvConfigs ==
    { <<"dict", [efficiency |-> PyFloat(20), performance_ratio |-> PyFloat(16),
                 land_coverage |-> PyFloat(12), system_efficiency |-> PyFloat(19)]>>,
      <<"dict", [efficiency |-> PyFloat(20), performance_ratio |-> PyFloat(16),
                 land_coverage |-> PyFloat(12), system_efficiency |-> PyFloat(19),
                 price_per_kwh |-> PyFloat(4)]>> }

JsonWindConfig ==
    <<"dict", [rated_power_kw |-> PyFloat(5), rotor_diameter_m |-> PyFloat(7)]>>

InitSafeJson ==
    /\ json_args \in [rows : JsonRows, pv_config : JsonPvConfigs]
    /\ json_ret = <<>>
    /\ MixedIdle /\ PvIdle /\ WindIdle /\ FetchIdle /\ EstIdle
    /\ SoilIdle /\ CacheIdle
    /\ AgriIdle /\ CropIdle /\ ViewIdle /\ ReqsIdle

ReturnResults ==
    /\ json_ret = <<>>
    /\ json_ret' = << safe_json(JsonResults(json_args.rows, json_args.pv_config,
                                            JsonWindConfig, DcVoltage)) >>
    /\ UNCHANGED <<mixed_args, mixed_ret, pv_args, pv_ret, wind_args, wind_ret,
                   fetch_args, fetch_ret, est_args, est_ret>>
    /\ UNCHANGED <<json_args, soil_vars, cache_vars>>
    /\ UNCHANGED <<agri_vars, crop_vars, view_vars, reqs, figures>>

NextSafeJson == ReturnResults

SpecSafeJson == InitSafeJson /\ [][NextSafeJson]_vars

-----------------------------------------------------------------------------
(* Claims about safe_json *)

\* A float that is NaN or infinite occurs in the value
RECURSIVE HoldsNonFinite(_)
HoldsNonFinite(v) ==
    IF v[1] = "dict" THEN \E k \in DOMAIN v[2] : HoldsNonFinite(v[2][k])
    ELSE IF v[1] = "list" THEN \E i \in 1..Len(v[2]) : HoldsNonFinite(v[2][i])
    ELSE v[1] \in {"nan", "inf", "-inf"}

\* C18: estimate_energy_potential returns, without raising, a value that
\* holds no NaN and no infinity: a number of the totals, the revenue or the
\* monthly breakdown that is not finite is replaced by null or zero.
C18_NoNonFiniteOutput ==
    json_ret # <<>> =>
        /\ json_ret[1].raised = "none"
        /\ ~HoldsNonFinite(json_ret[1].value[1])

-----------------------------------------------------------------------------
(* get_soil_data (soil_analysis.py)                                         *)
(*                                                                          *)
(* The answer of the SoilGrids API is [kind |-> "network_error"],           *)
(* [kind |-> "timeout"] or [kind |-> "http", status |-> s, body |-> b],     *)
(* with the body                                                            *)
(*   [kind |-> "not_json"]   not decodable as JSON                          *)
(*   [kind |-> "null"]       the JSON value null                            *)
(*   [kind |-> "array"]      a JSON array                                   *)
(*   [kind |-> "object", properties |-> p]                                  *)
(* p is [kind |-> "absent"], [kind |-> "null"] or                           *)
(* [kind |-> "mapping", layers |-> l]; l is [kind |-> "absent"],            *)
(* [kind |-> "null"] or [kind |-> "list", items |-> sequence of layers].    *)
(* A layer is [kind |-> "no_name"], [kind |-> "no_depths", name |-> n] or   *)
(* [kind |-> "layer", name |-> n, depths |-> sequence of depths].  A depth  *)
(* is [kind |-> "no_values"], [kind |-> "values_null"],                     *)
(* [kind |-> "no_label", mean |-> m] or                                     *)
(* [kind |-> "depth", label |-> l, mean |-> m], where the mean m is <<v>>   *)
(* or, when it is null or absent, <<>>.                                     *)
(* A dict is a function on its keys; the empty dict is <<>>.                *)

\* Lines 10-36
SoilDepthDict(top, mid, low) ==
    ("0-5cm" :> top) @@ ("5-15cm" :> mid) @@ ("15-30cm" :> low)

MOCK_SOIL_DATA ==
    [phh2o |-> SoilDepthDict(64, 63, 65),
     clay |-> SoilDepthDict(220, 230, 240),
     sand |-> SoilDepthDict(450, 440, 430),
     soc |-> SoilDepthDict(12, 10, 8),
     nitrogen |-> SoilDepthDict(800, 700, 600)]

\* d[key] = value
DictPut(d, key, value) ==
    [k \in DOMAIN d \cup {key} |-> IF k = key THEN value ELSE d[k]]

\* The loop of lines 99-104 over the depths of one layer, from the depth
\* dict built so far: the exception it raises, or "none" and the dict
RECURSIVE SoilDepths(_, _)
SoilDepths(depths, by_label) ==
    IF depths = <<>> THEN [exc |-> "none", value |-> by_label]
    ELSE LET depth == depths[1]
         IN  IF depth.kind = "no_values" THEN [exc |-> "KeyError", value |-> <<>>]
             ELSE IF depth.kind = "values_null"
             THEN [exc |-> "AttributeError", value |-> <<>>]
             ELSE IF IsNaN(depth.mean) THEN SoilDepths(Tail(depths), by_label)
             ELSE IF depth.kind = "no_label"
             THEN [exc |-> "KeyError", value |-> <<>>]
             ELSE SoilDepths(Tail(depths),
                             DictPut(by_label, depth.label, depth.mean[1]))

\* The loop of lines 96-104 over the layers, from the soil_info built so far
RECURSIVE SoilLayers(_, _)
SoilLayers(layers, soil_info) ==
    IF layers = <<>> THEN [exc |-> "none", value |-> soil_info]
    ELSE LET prop == layers[1]
         IN  IF prop.kind = "no_name" THEN [exc |-> "KeyError", value |-> <<>>]
             ELSE IF prop.kind = "no_depths"
             THEN [exc |-> "KeyError", value |-> <<>>]
             ELSE LET inner == SoilDepths(prop.depths, <<>>)
                  IN  IF inner.exc # "none" THEN inner
                      ELSE SoilLayers(Tail(layers),
                                      DictPut(soil_info, prop.name, inner.value))

\* The try block (lines 85-106): the exception it raises, or "none" and the
\* value it returns
SoilBody(api) ==
    IF api.kind = "network_error" THEN [exc |-> "ConnectionError", value |-> <<>>]
    ELSE IF api.kind = "timeout" THEN [exc |-> "Timeout", value |-> <<>>]
    ELSE IF api.status # 200 THEN [exc |-> "none", value |-> MOCK_SOIL_DATA]
    ELSE IF api.body.kind = "not_json"
    THEN [exc |-> "JSONDecodeError", value |-> <<>>]
    ELSE IF api.body.kind \in {"null", "array"}
    THEN [exc |-> "AttributeError", value |-> <<>>]
    ELSE IF api.body.properties.kind = "absent" THEN [exc |-> "none", value |-> <<>>]
    ELSE IF api.body.properties.kind = "null"
    THEN [exc |-> "AttributeError", value |-> <<>>]
    ELSE IF api.body.properties.layers.kind = "absent"
    THEN [exc |-> "none", value |-> <<>>]
    ELSE IF api.body.properties.layers.kind = "null"
    THEN [exc |-> "TypeError", value |-> <<>>]
    ELSE SoilLayers(api.body.properties.layers.items, <<>>)

\* except requests.exceptions.RequestException / except (KeyError, ValueError)
\* (lines 108-113); JSONDecodeError is a ValueError
SoilCaught(exc) ==
    exc \in {"ConnectionError", "Timeout", "JSONDecodeError", "KeyError", "ValueError"}

get_soil_data(use_mock, api) ==
    IF use_mock THEN [raised |-> "none", value |-> <<MOCK_SOIL_DATA>>]
    ELSE LET body == SoilBody(api)
         IN  IF body.exc = "none" THEN [raised |-> "none", value |-> <<body.value>>]
             ELSE IF SoilCaught(body.exc)
             THEN [raised |-> "none", value |-> <<MOCK_SOIL_DATA>>]
             ELSE [raised |-> body.exc, value |-> <<>>]

-----------------------------------------------------------------------------
(* Specification of get_soil_data: the arguments and the answer of the API  *)
(* are drawn in the initial state, the call returns or raises               *)

MaxLayers == 2

SoilMeans == {<<>>, <<64>>}

SoilDepthItems ==
    {[kind |-> "no_values"], [kind |-> "values_null"]}
    \cup {[kind |-> "no_label", mean |-> m] : m \in SoilMeans}
    \cup {[kind |-> "depth", label |-> "0-5cm", mean |-> m] : m \in SoilMeans}

SoilGoodDepth == [kind |-> "depth", label |-> "0-5cm", mean |-> <<64>>]

SoilDepthLists ==
    {<<>>}
    \cup {<<d>> : d \in SoilDepthItems}
    \cup {<<SoilGoodDepth, d>> :
              d \in {[kind |-> "no_values"], [kind |-> "values_null"],
                     [kind |-> "depth", label |-> "5-15cm", mean |-> <<63>>]}}

SoilLayerItems ==
    {[kind |-> "no_name"], [kind |-> "no_depths", name |-> "phh2o"]}
    \cup {[kind |-> "layer", name |-> n, depths |-> d] :
              n \in {"phh2o", "clay"}, d \in SoilDepthLists}

SoilBodies ==
    {[kind |-> "not_json"], [kind |-> "null"], [kind |-> "array"]}
    \cup {[kind |-> "object", properties |-> [kind |-> k]] : k \in {"absent", "null"}}
    \cup {[kind |-> "object",
           properties |-> [kind |-> "mapping", layers |-> [kind |-> k]]] :
              k \in {"absent", "null"}}
    \cup {[kind |-> "object",
           properties |-> [kind |-> "mapping",
                           layers |-> [kind |-> "list", items |-> l]]] :
              l \in SeqsUpTo(SoilLayerItems, MaxLayers)}

SoilApiResponses ==
    {[kind |-> "network_error"], [kind |-> "timeout"]}
    \cup {[kind |-> "http", status |-> 500, body |-> [kind |-> "not_json"]]}
    \cup {[kind |-> "http", status |-> 200, body |-> b] : b \in SoilBodies}

InitSoil ==
    /\ soil_args \in {<<[use_mock |-> u, api |-> a]>> :
                          u \in BOOLEAN, a \in SoilApiResponses}
    /\ soil_ret = <<>>
    /\ MixedIdle /\ PvIdle /\ WindIdle /\ FetchIdle /\ EstIdle
    /\ JsonIdle /\ CacheIdle
    /\ AgriIdle /\ CropIdle /\ ViewIdle /\ ReqsIdle

CallSoilData ==
    /\ soil_ret = <<>>
    /\ soil_ret' = <<get_soil_data(soil_args[1].use_mock, soil_args[1].api)>>
    /\ UNCHANGED soil_args
    /\ UNCHANGED <<mixed_args, mixed_ret, pv_args, pv_ret, wind_args, wind_ret,
                   fetch_args, fetch_ret, est_args, est_ret, json_vars, cache_vars>>
    /\ UNCHANGED <<agri_vars, crop_vars, view_vars, reqs, figures>>

NextSoil == CallSoilData

SpecSoil == InitSoil /\ [][NextSoil]_vars

\* A depth, a layer, a body that has the structure
\* properties.layers[] / depths[].values.mean with its name and label
SoilDepthWellFormed(depth) == depth.kind = "depth" /\ depth.mean # <<>>

SoilLayerWellFormed(prop) ==
    /\ prop.kind = "layer"
    /\ \A i \in 1..Len(prop.depths) : SoilDepthWellFormed(prop.depths[i])

SoilBodyWellFormed(body) ==
    /\ body.kind = "object"
    /\ body.properties.kind = "mapping"
    /\ body.properties.layers.kind = "list"
    /\ \A i \in 1..Len(body.properties.layers.items) :
           SoilLayerWellFormed(body.properties.layers.items[i])

\* The request failed: network error, timeout, a status other than 200, a
\* body that is not JSON, or one without the expected structure
SoilFailure(api) ==
    \/ api.kind \in {"network_error", "timeout"}
    \/ api.kind = "http" /\ api.status # 200
    \/ api.kind = "http" /\ api.status = 200 /\ ~SoilBodyWellFormed(api.body)

\* C20: with use_mock False, get_soil_data returns MOCK_SOIL_DATA on every
\* failure (network error, timeout, non-200 status, undecodable JSON, a
\* response without the properties.layers[] / depths[].values.mean
\* structure); it never raises and never returns an empty mapping
C20_MockOnEveryFailure ==
    soil_ret # <<>> =>
        /\ soil_ret[1].raised = "none"
        /\ soil_ret[1].value # << <<>> >>
        /\ (~soil_args[1].use_mock /\ SoilFailure(soil_args[1].api))
               => soil_ret[1].value = <<MOCK_SOIL_DATA>>

\* The failures the two except clauses do cover end in MOCK_SOIL_DATA
SoilCaughtFailure(api) ==
    \/ api.kind \in {"network_error", "timeout"}
    \/ api.kind = "http" /\ api.status # 200
    \/ api.kind = "http" /\ api.status = 200 /\ api.body.kind = "not_json"

C20_CaughtFailuresGiveMock ==
    (soil_ret # <<>> /\ SoilCaughtFailure(soil_args[1].api))
        => soil_ret[1] = [raised |-> "none", value |-> <<MOCK_SOIL_DATA>>]

\* The call raises
C20_Raises == soil_ret # <<>> /\ soil_ret[1].raised # "none"

\* The call returns the empty mapping
C20_ReturnsEmpty == soil_ret # <<>> /\ soil_ret[1].value = << <<>> >>

-----------------------------------------------------------------------------
(* estimate_agri_revenue (soil_analysis.py; the definition of lines 272-304 *)
(* replaces the identical one of lines 238-270)                             *)
(*                                                                          *)
(* Yields are in kg/ha, prices in INR/kg, the area in whole hectares.       *)

\* Lines 39-55
CROP_DATA ==
    ("Rice" :> [yield |-> 4000, price |-> 25])
    @@ ("Wheat" :> [yield |-> 3500, price |-> 22])
    @@ ("Maize" :> [yield |-> 5000, price |-> 20])
    @@ ("Cotton" :> [yield |-> 2000, price |-> 60])
    @@ ("Sugarcane" :> [yield |-> 80000, price |-> 3])
    @@ ("Pulses (Chickpeas, Lentils, etc.)" :> [yield |-> 1500, price |-> 70])
    @@ ("Millets (Pearl millet, Finger millet, etc.)" :> [yield |-> 2000, price |-> 30])
    @@ ("Oilseeds (Groundnut, Sunflower, etc.)" :> [yield |-> 2500, price |-> 50])
    @@ ("Acid-tolerant crops (Potatoes, Blueberries, etc.)" :> [yield |-> 25000, price |-> 15])
    @@ ("Alkaline-tolerant crops (Asparagus, Beets, etc.)" :> [yield |-> 15000, price |-> 40])
    @@ ("Clay-soil crops (Rice, Wheat, etc.)" :> [yield |-> 3800, price |-> 24])
    @@ ("Sandy-soil crops (Groundnut, Millets, etc.)" :> [yield |-> 2200, price |-> 40])
    @@ ("Loam-soil crops (Most vegetables, grains, etc.)" :> [yield |-> 10000, price |-> 30])
    @@ ("General crops (adaptable to various soil conditions)" :> [yield |-> 5000, price |-> 25])
    @@ ("General crops suitable for diverse soil conditions" :> [yield |-> 5000, price |-> 25])

\* The default of CROP_DATA.get (line 285)
DefaultCropData == [yield |-> 3000, price |-> 20]

\* The detail appended for one crop (lines 285-294)
CropDetail(crop, area_ha) ==
    LET data == DictGet(CROP_DATA, crop, DefaultCropData)
        total_yield == data.yield * area_ha
    IN  [crop |-> crop, yield_kg |-> total_yield,
         price_per_kg |-> data.price, revenue |-> total_yield * data.price]

\* if revenue > max_revenue (line 296)
AgriBetter_OrEqual(revenue, max_revenue) == revenue >= max_revenue

AgriBetter(revenue, max_revenue) == revenue > max_revenue

\* The loop of lines 284-298 from crop i on, with the state it has reached
RECURSIVE AgriLoop(_, _, _, _)
AgriLoop(crops, area_ha, i, acc) ==
    IF i > Len(crops) THEN acc
    ELSE LET detail == CropDetail(crops[i], area_ha)
             better == AgriBetter(detail.revenue, acc.max_revenue)
         IN  AgriLoop(crops, area_ha, i + 1,
                      [best_crop |-> IF better THEN <<crops[i]>> ELSE acc.best_crop,
                       max_revenue |-> IF better THEN detail.revenue
                                       ELSE acc.max_revenue,
                       details |-> Append(acc.details, detail)])

\* if not crops or area_ha <= 0 (line 277)
AgriDegenerate_EmptyOnly(crops, area_ha) == crops = <<>>

AgriDegenerate(crops, area_ha) == crops = <<>> \/ area_ha <= 0

estimate_agri_revenue(crops, area_ha) ==
    IF AgriDegenerate(crops, area_ha)
    THEN [best_crop |-> <<>>, max_revenue |-> 0, details |-> <<>>]
    ELSE AgriLoop(crops, area_ha, 1,
                  [best_crop |-> <<>>, max_revenue |-> 0, details |-> <<>>])

-----------------------------------------------------------------------------
(* Specification of estimate_agri_revenue *)

MaxCrops == 3

\* Rice and Maize earn the same per hectare; "Quinoa" is not in the table
AgriCropNames == {"Rice", "Maize", "Wheat", "Sugarcane", "Quinoa"}

AgriCropLists == SeqsUpTo(AgriCropNames, MaxCrops)

AgriAreas == {-1, 0, 1, 2}

InitAgri ==
    /\ agri_args \in [crops : AgriCropLists, area_ha : AgriAreas]
    /\ agri_ret = <<>>
    /\ MixedIdle /\ PvIdle /\ WindIdle /\ FetchIdle /\ EstIdle
    /\ JsonIdle /\ SoilIdle /\ CacheIdle
    /\ CropIdle /\ ViewIdle /\ ReqsIdle

CallAgri ==
    /\ agri_ret = <<>>
    /\ agri_ret' = <<estimate_agri_revenue(agri_args.crops, agri_args.area_ha)>>
    /\ UNCHANGED agri_args
    /\ UNCHANGED <<mixed_args, mixed_ret, pv_args, pv_ret, wind_args, wind_ret,
                   fetch_args, fetch_ret, est_args, est_ret>>
    /\ UNCHANGED <<json_vars, soil_vars, cache_vars, crop_vars, view_vars, reqs, figures>>

NextAgri == CallAgri

SpecAgri == InitAgri /\ [][NextAgri]_vars

\* The table's yield and price of a crop name, 3000 and 20 off the table
AgriYield(crop) ==
    IF crop \in DOMAIN CROP_DATA THEN CROP_DATA[crop].yield ELSE 3000

AgriPrice(crop) ==
    IF crop \in DOMAIN CROP_DATA THEN CROP_DATA[crop].price ELSE 20

AgriRevenueOf(crop) == AgriYield(crop) * agri_args.area_ha * AgriPrice(crop)

\* C21: for a non-empty crop list and a positive area, the details are one
\* per input crop, in input order, each with revenue = yield_per_ha *
\* area_ha * price_per_kg from the crop table (3000 and 20 for a name not in
\* it); max_revenue is the highest of these revenues and best_crop is the
\* first crop of the list that earns it
C21_AgriRevenue ==
    (agri_ret # <<>> /\ agri_args.crops # <<>> /\ agri_args.area_ha > 0) =>
        LET crops == agri_args.crops
            r == agri_ret[1]
        IN  /\ Len(r.details) = Len(crops)
            /\ \A i \in 1..Len(crops) :
                   /\ r.details[i].crop = crops[i]
                   /\ r.details[i].revenue = AgriRevenueOf(crops[i])
                   /\ r.details[i].price_per_kg = AgriPrice(crops[i])
                   /\ r.details[i].yield_kg = AgriYield(crops[i]) * agri_args.area_ha
            /\ \A i \in 1..Len(crops) : AgriRevenueOf(crops[i]) <= r.max_revenue
            /\ \E i \in 1..Len(crops) :
                   /\ r.best_crop = <<crops[i]>>
                   /\ r.max_revenue = AgriRevenueOf(crops[i])
                   /\ \A j \in 1..(i - 1) : AgriRevenueOf(crops[j]) < r.max_revenue

\* Maize before Rice with an unknown crop in between: a tie at the maximum,
\* won by the first, and the default yield and price in use
C21_Witness ==
    /\ agri_ret # <<>>
    /\ agri_args.crops = <<"Maize", "Quinoa", "Rice">>
    /\ agri_args.area_ha = 2
    /\ agri_ret[1].best_crop = <<"Maize">>
    /\ agri_ret[1].max_revenue = 200000
    /\ agri_ret[1].details[2].revenue = 120000

-----------------------------------------------------------------------------
(* calculate_weighted_average, recommend_crops and                          *)
(* get_fallback_recommendations (soil_analysis.py)                          *)
(*                                                                          *)
(* Soil data is a mapping from property names to mappings from depth labels *)
(* to numbers, as get_soil_data returns it.  An average is the exact        *)
(* fraction [num |-> n, den |-> d] with d > 0; None is <<>> and a present   *)
(* average a is <<a>>.                                                      *)

\* a <= b and a < b for fractions with positive denominators
RatLeq(a, b) == a.num * b.den <= b.num * a.den

RatLess(a, b) == a.num * b.den < b.num * a.den

\* The number n, and n / 10
Whole(n) == [num |-> n, den |-> 1]

Tenths(n) == [num |-> n, den |-> 10]

\* lo <= x <= hi
RatBetween(lo, x, hi) == RatLeq(lo, x) /\ RatLeq(x, hi)

\* depth_weights = {"0-5cm": 0.25, "5-15cm": 0.35, "15-30cm": 0.40} (line 163),
\* in dict order, the weights in twentieths
DepthWeights == << <<"0-5cm", 5>>, <<"5-15cm", 7>>, <<"15-30cm", 8>> >>

\* The loop of lines 134-139: the pair <<weighted_sum, total_weight>> over the
\* depths from i on.  scale divides every value: 1, or 10 for the pH data of
\* line 169.
RECURSIVE WeightedSums(_, _, _)
WeightedSums(by_depth, depths_weights, i) ==
    IF i > Len(depths_weights) THEN <<0, 0>>
    ELSE LET depth == depths_weights[i][1]
             weight == depths_weights[i][2]
             rest == WeightedSums(by_depth, depths_weights, i + 1)
         IN  IF depth \in DOMAIN by_depth
             THEN <<by_depth[depth] * weight + rest[1], weight + rest[2]>>
             ELSE rest

\* The result for the property's depth mapping, or None (lines 128-144)
WeightedResult(by_depth, depths_weights, scale) ==
    LET sums == WeightedSums(by_depth, depths_weights, 1)
    IN  IF sums[2] = 0 THEN <<>>
        ELSE << [num |-> sums[1], den |-> sums[2] * scale] >>

calculate_weighted_average(soil_data, property_name, depths_weights) ==
    IF property_name \notin DOMAIN soil_data THEN <<>>
    ELSE WeightedResult(soil_data[property_name], depths_weights, 1)

\* Lines 168-172: the pH values are divided by 10 before they are averaged
WeightedPh(soil_data, depths_weights) ==
    IF "phh2o" \in DOMAIN soil_data
    THEN WeightedResult(soil_data["phh2o"], depths_weights, 10)
    ELSE <<>>

\* sum(values) / len(values) over all the values of a depth mapping, each
\* divided by scale; len(values) > 0
RECURSIVE SumValues(_, _)
SumValues(by_depth, keys) ==
    IF keys = {} THEN 0
    ELSE LET k == CHOOSE x \in keys : TRUE
         IN  by_depth[k] + SumValues(by_depth, keys \ {k})

PlainMean(by_depth, scale) ==
    [num |-> SumValues(by_depth, DOMAIN by_depth),
     den |-> Cardinality(DOMAIN by_depth) * scale]

\* list(soil_data.get(name, {}).values()) or [0], averaged (lines 340-344)
TextureMean(soil_data, name) ==
    IF name \in DOMAIN soil_data /\ DOMAIN soil_data[name] # {}
    THEN PlainMean(soil_data[name], 1)
    ELSE Whole(0)

\* Lines 321-334: the pH label, none when the division by len fails
FallbackPh(soil_data) ==
    IF "phh2o" \notin DOMAIN soil_data THEN <<>>
    ELSE IF DOMAIN soil_data["phh2o"] = {} THEN <<>>
    ELSE LET avg_ph == PlainMean(soil_data["phh2o"], 10)
         IN  IF RatLess(avg_ph, Tenths(55))
             THEN <<"Acid-tolerant crops (Potatoes, Blueberries, etc.)">>
             ELSE IF RatBetween(Tenths(55), avg_ph, Tenths(70))
             THEN <<"Most common crops (Rice, Wheat, Maize, etc.)">>
             ELSE <<"Alkaline-tolerant crops (Asparagus, Beets, etc.)">>

\* Lines 337-353: the texture label
FallbackTexture(soil_data) ==
    IF "clay" \notin DOMAIN soil_data /\ "sand" \notin DOMAIN soil_data THEN <<>>
    ELSE LET avg_clay == TextureMean(soil_data, "clay")
             avg_sand == TextureMean(soil_data, "sand")
         IN  IF RatLess(Whole(400), avg_clay)
             THEN <<"Clay-soil crops (Rice, Wheat, etc.)">>
             ELSE IF RatLess(Whole(500), avg_sand)
             THEN <<"Sandy-soil crops (Groundnut, Millets, etc.)">>
             ELSE <<"Loam-soil crops (Most vegetables, grains, etc.)">>

\* if not recommendations: append the generic label (lines 229-230, 355-356)
OrGeneric_Always(recommendations, label) == Append(recommendations, label)

OrGeneric_Never(recommendations, label) == recommendations

OrGeneric(recommendations, label) ==
    IF recommendations = <<>> THEN <<label>> ELSE recommendations

get_fallback_recommendations(soil_data) ==
    OrGeneric(FallbackPh(soil_data) \o FallbackTexture(soil_data),
              "General crops suitable for diverse soil conditions")

\* One rule of lines 197-226: the crop when its condition holds
Rule(condition, crop) == IF condition THEN <<crop>> ELSE <<>>

\* Rice: 5.5 <= ph <= 7.0 and clay > 250 (line 197)
RiceRule_Clay200(ph, clay) == RatBetween(Tenths(55), ph, Tenths(70)) /\ RatLess(Whole(200), clay)

RiceRule(ph, clay) == RatBetween(Tenths(55), ph, Tenths(70)) /\ RatLess(Whole(250), clay)

\* Lines 197-226, in order
CropRules(ph, clay, sand, organic_carbon) ==
    Rule(RiceRule(ph, clay), "Rice")
    \o Rule(RatBetween(Tenths(60), ph, Tenths(75))
            /\ RatBetween(Whole(150), clay, Whole(350)), "Wheat")
    \o Rule(RatBetween(Tenths(58), ph, Tenths(75)) /\ RatLess(Whole(200), sand)
            /\ RatLess(Whole(8), organic_carbon), "Maize")
    \o Rule(RatBetween(Tenths(60), ph, Tenths(80))
            /\ RatBetween(Whole(150), clay, Whole(400)), "Cotton")
    \o Rule(RatBetween(Tenths(60), ph, Tenths(75)) /\ RatLess(Whole(200), sand),
            "Pulses (Chickpeas, Lentils, etc.)")
    \o Rule(RatBetween(Tenths(60), ph, Tenths(75))
            /\ RatLess(Whole(10), organic_carbon) /\ RatLess(Whole(200), clay),
            "Sugarcane")
    \o Rule(RatBetween(Tenths(55), ph, Tenths(70)) /\ RatLess(Whole(300), sand),
            "Millets (Pearl millet, Finger millet, etc.)")
    \o Rule(RatBetween(Tenths(60), ph, Tenths(70)),
            "Oilseeds (Groundnut, Sunflower, etc.)")

\* if any(v is None ...) (line 180)
AnyMissing(averages) == \E i \in 1..Len(averages) : averages[i] = <<>>

recommend_crops(soil_data) ==
    IF DOMAIN soil_data = {}
    THEN <<"Unable to get soil data for recommendation">>
    ELSE LET ph == WeightedPh(soil_data, DepthWeights)
             clay == calculate_weighted_average(soil_data, "clay", DepthWeights)
             sand == calculate_weighted_average(soil_data, "sand", DepthWeights)
             organic_carbon == calculate_weighted_average(soil_data, "soc", DepthWeights)
             nitrogen == calculate_weighted_average(soil_data, "nitrogen", DepthWeights)
         IN  IF AnyMissing(<<ph, clay, sand, organic_carbon, nitrogen>>)
             THEN get_fallback_recommendations(soil_data)
             ELSE OrGeneric(CropRules(ph[1], clay[1], sand[1], organic_carbon[1]),
                            "General crops (adaptable to various soil conditions)")

-----------------------------------------------------------------------------
(* Specification of recommend_crops: the soil data is drawn in the initial  *)
(* state, the call returns the recommendations                              *)

SoilProperties == {"phh2o", "clay", "sand", "soc", "nitrogen"}

\* A depth mapping with one label
OneDepth(label, value) == label :> value

\* Depth mappings of the pH (in tenths): the mock values; values whose
\* weighted and plain means differ around 7.0; one band; no band; a depth
\* that is not one of the three bands; a pH no rule accepts
CropPhData ==
    {SoilDepthDict(64, 63, 65), SoilDepthDict(60, 70, 80), OneDepth("0-5cm", 50),
     <<>>, OneDepth("30-60cm", 60), SoilDepthDict(85, 85, 85)}

CropClayData ==
    {SoilDepthDict(220, 230, 240), SoilDepthDict(300, 300, 300),
     OneDepth("5-15cm", 450), <<>>}

CropSandData ==
    {SoilDepthDict(450, 440, 430), SoilDepthDict(100, 100, 100),
     OneDepth("0-5cm", 600)}

CropSocData == {SoilDepthDict(12, 10, 8), SoilDepthDict(20, 20, 20), <<>>}

CropNitrogenData == {SoilDepthDict(800, 700, 600)}

\* A property that is absent, or present with one of the mappings
Optional(S) == {<<>>} \cup {<<x>> : x \in S}

\* The mapping that holds the properties chosen to be present
SoilOf(choice) ==
    [p \in {q \in SoilProperties : choice[q] # <<>>} |-> choice[p][1]]

CropSoilData ==
    {SoilOf([phh2o |-> ph, clay |-> clay, sand |-> sand, soc |-> soc,
             nitrogen |-> nitrogen]) :
        ph \in Optional(CropPhData), clay \in Optional(CropClayData),
        sand \in Optional(CropSandData), soc \in Optional(CropSocData),
        nitrogen \in Optional(CropNitrogenData)}

InitCrop ==
    /\ crop_args \in {<<soil_data>> : soil_data \in CropSoilData}
    /\ crop_ret = <<>>
    /\ MixedIdle /\ PvIdle /\ WindIdle /\ FetchIdle /\ EstIdle
    /\ JsonIdle /\ SoilIdle /\ CacheIdle
    /\ AgriIdle /\ ViewIdle /\ ReqsIdle

CallCrop ==
    /\ crop_ret = <<>>
    /\ crop_ret' = <<recommend_crops(crop_args[1])>>
    /\ UNCHANGED crop_args
    /\ UNCHANGED <<mixed_args, mixed_ret, pv_args, pv_ret, wind_args, wind_ret,
                   fetch_args, fetch_ret, est_args, est_ret>>
    /\ UNCHANGED <<json_vars, soil_vars, cache_vars, agri_vars, view_vars, reqs, figures>>

NextCrop == CallCrop

SpecCrop == InitCrop /\ [][NextCrop]_vars

\* The soil data of the call and the recommendations it returned
CropSoil == crop_args[1]

CropReturned == crop_ret # <<>>

\* The property has a value at one of the three depth bands
HasBand(soil_data, p) ==
    /\ p \in DOMAIN soil_data
    /\ DOMAIN soil_data[p] \cap {"0-5cm", "5-15cm", "15-30cm"} # {}

AllUsable(soil_data) == \A p \in SoilProperties : HasBand(soil_data, p)


\* The weighted sum and the total weight of a property of the call over the
\* bands it has, with the weights 0.25 / 0.35 / 0.40 in twentieths
BandTerm(p, depth, weight) ==
    IF depth \in DOMAIN CropSoil[p] THEN CropSoil[p][depth] * weight ELSE 0

BandWeight(p, depth, weight) ==
    IF depth \in DOMAIN CropSoil[p] THEN weight ELSE 0

CropWeightedSum(p) ==
    BandTerm(p, "0-5cm", 5) + BandTerm(p, "5-15cm", 7) + BandTerm(p, "15-30cm", 8)

CropTotalWeight(p) ==
    BandWeight(p, "0-5cm", 5) + BandWeight(p, "5-15cm", 7)
        + BandWeight(p, "15-30cm", 8)

\* lo <= average <= hi and average > x for the weighted average of a
\* property (for the pH, lo, hi and x are in tenths, as the data is)
AvgIn(p, lo, hi) ==
    /\ lo * CropTotalWeight(p) <= CropWeightedSum(p)
    /\ CropWeightedSum(p) <= hi * CropTotalWeight(p)

AvgAbove(p, x) == CropWeightedSum(p) > x * CropTotalWeight(p)

\* The crops whose documented ranges the weighted averages of the call meet
CropsInRange ==
    {c \in {"Rice"} : AvgIn("phh2o", 55, 70) /\ AvgAbove("clay", 250)}
    \cup {c \in {"Wheat"} : AvgIn("phh2o", 60, 75) /\ AvgIn("clay", 150, 350)}
    \cup {c \in {"Maize"} :
              AvgIn("phh2o", 58, 75) /\ AvgAbove("sand", 200) /\ AvgAbove("soc", 8)}
    \cup {c \in {"Cotton"} : AvgIn("phh2o", 60, 80) /\ AvgIn("clay", 150, 400)}
    \cup {c \in {"Pulses (Chickpeas, Lentils, etc.)"} :
              AvgIn("phh2o", 60, 75) /\ AvgAbove("sand", 200)}
    \cup {c \in {"Sugarcane"} :
              AvgIn("phh2o", 60, 75) /\ AvgAbove("soc", 10) /\ AvgAbove("clay", 200)}
    \cup {c \in {"Millets (Pearl millet, Finger millet, etc.)"} :
              AvgIn("phh2o", 55, 70) /\ AvgAbove("sand", 300)}
    \cup {c \in {"Oilseeds (Groundnut, Sunflower, etc.)"} : AvgIn("phh2o", 60, 70)}

\* The labels that name no single crop
PhLabels ==
    {"Acid-tolerant crops (Potatoes, Blueberries, etc.)",
     "Most common crops (Rice, Wheat, Maize, etc.)",
     "Alkaline-tolerant crops (Asparagus, Beets, etc.)"}

TextureLabels ==
    {"Clay-soil crops (Rice, Wheat, etc.)",
     "Sandy-soil crops (Groundnut, Millets, etc.)",
     "Loam-soil crops (Most vegetables, grains, etc.)"}

GenericLabels ==
    {"Unable to get soil data for recommendation",
     "Incomplete soil data for accurate recommendation",
     "General crops suitable for diverse soil conditions",
     "General crops (adaptable to various soil conditions)"}
    \cup PhLabels \cup TextureLabels

\* A required property has no usable value, or all have one and no rule fires
CropFallbackCase ==
    \/ ~AllUsable(CropSoil)
    \/ AllUsable(CropSoil) /\ CropsInRange = {}

\* C22 as stated: in these cases the list is exactly one generic label
C22_SingleGenericLabel ==
    (CropReturned /\ CropFallbackCase) =>
        /\ Len(crop_ret[1]) = 1
        /\ crop_ret[1][1] \in GenericLabels

\* C22, amended: when all properties are usable and no rule fires the list is
\* the single label "General crops (adaptable to various soil conditions)";
\* for empty soil data it is the single label "Unable to get soil data for
\* recommendation"; when a required property has no usable value it is a pH
\* label (if the pH property has values), then a texture label (if the clay
\* or the sand property is present), and the single label "General crops
\* suitable for diverse soil conditions" if it would have neither: one or
\* two labels, none of them a specific crop
C22_FallbackLabels ==
    (CropReturned /\ CropFallbackCase) =>
        LET ret == crop_ret[1]
            has_ph == "phh2o" \in DOMAIN CropSoil /\ DOMAIN CropSoil["phh2o"] # {}
            has_texture == "clay" \in DOMAIN CropSoil \/ "sand" \in DOMAIN CropSoil
        IN  /\ Len(ret) \in {1, 2}
            /\ \A i \in 1..Len(ret) : ret[i] \in GenericLabels
            /\ AllUsable(CropSoil) =>
                   ret = <<"General crops (adaptable to various soil conditions)">>
            /\ DOMAIN CropSoil = {} =>
                   ret = <<"Unable to get soil data for recommendation">>
            /\ (DOMAIN CropSoil # {} /\ ~AllUsable(CropSoil)) =>
                   /\ Len(ret) = 2 <=> (has_ph /\ has_texture)
                   /\ has_ph => ret[1] \in PhLabels
                   /\ has_texture => ret[Len(ret)] \in TextureLabels
                   /\ (~has_ph /\ ~has_texture) =>
                          ret = <<"General crops suitable for diverse soil conditions">>

\* Organic carbon is missing while pH, clay and sand are there: two labels
C22_Witness ==
    /\ CropReturned
    /\ "soc" \notin DOMAIN CropSoil
    /\ "phh2o" \in DOMAIN CropSoil /\ CropSoil["phh2o"] = SoilDepthDict(64, 63, 65)
    /\ "clay" \in DOMAIN CropSoil /\ CropSoil["clay"] = SoilDepthDict(220, 230, 240)
    /\ crop_ret[1] = <<"Most common crops (Rice, Wheat, Maize, etc.)",
                       "Loam-soil crops (Most vegetables, grains, etc.)">>


\* C23 as stated: for MOCK_SOIL_DATA the list is not empty and includes Rice
C23_MockIncludesRice ==
    (CropReturned /\ CropSoil = MOCK_SOIL_DATA) =>
        /\ crop_ret[1] # <<>>
        /\ \E i \in 1..Len(crop_ret[1]) : crop_ret[1][i] = "Rice"

\* C23, amended: for MOCK_SOIL_DATA the list is not empty and is Wheat,
\* Maize, Cotton, Pulses, Millets, Oilseeds, in this order; Rice is not in
\* it, the weighted clay average 231.5 being below the 250 of the Rice rule
C23_MockRecommendations ==
    (CropReturned /\ CropSoil = MOCK_SOIL_DATA) =>
        /\ crop_ret[1] # <<>>
        /\ crop_ret[1] = <<"Wheat", "Maize", "Cotton",
                           "Pulses (Chickpeas, Lentils, etc.)",
                           "Millets (Pearl millet, Finger millet, etc.)",
                           "Oilseeds (Groundnut, Sunflower, etc.)">>
        /\ \A i \in 1..Len(crop_ret[1]) : crop_ret[1][i] # "Rice"

\* The call with MOCK_SOIL_DATA has returned; its weighted clay average is
\* 4630 / 20 = 231.5
C23_Witness ==
    /\ CropReturned
    /\ CropSoil = MOCK_SOIL_DATA
    /\ CropWeightedSum("clay") = 4630 /\ CropTotalWeight("clay") = 20
    /\ Len(crop_ret[1]) = 6


\* The labels the weighted averages of the call decide in the fallback path
WeightedPhLabel ==
    IF CropWeightedSum("phh2o") < 55 * CropTotalWeight("phh2o")
    THEN "Acid-tolerant crops (Potatoes, Blueberries, etc.)"
    ELSE IF AvgIn("phh2o", 55, 70)
    THEN "Most common crops (Rice, Wheat, Maize, etc.)"
    ELSE "Alkaline-tolerant crops (Asparagus, Beets, etc.)"

WeightedTextureLabel ==
    IF HasBand(CropSoil, "clay") /\ AvgAbove("clay", 400)
    THEN "Clay-soil crops (Rice, Wheat, etc.)"
    ELSE IF HasBand(CropSoil, "sand") /\ AvgAbove("sand", 500)
    THEN "Sandy-soil crops (Groundnut, Millets, etc.)"
    ELSE "Loam-soil crops (Most vegetables, grains, etc.)"

\* The elements of a list
Elements(list) == {list[i] : i \in 1..Len(list)}

\* The rule path decides by the weighted averages: with all five properties
\* usable, the specific crops returned are those whose ranges the weighted
\* averages meet
C24_RulePathWeighted ==
    (CropReturned /\ AllUsable(CropSoil)) =>
        Elements(crop_ret[1]) \ GenericLabels = CropsInRange

\* C24: the scalar that decides a recommendation is the average over the
\* bands 0-5cm, 5-15cm, 15-30cm weighted 0.25 / 0.35 / 0.40 and renormalised
\* over the bands present, in the rule path and in the fallback path, and is
\* undefined only when the property or all its bands are absent
C24_WeightedEverywhere ==
    CropReturned =>
        /\ AllUsable(CropSoil) =>
               Elements(crop_ret[1]) \ GenericLabels = CropsInRange
        /\ (DOMAIN CropSoil # {} /\ ~AllUsable(CropSoil)) =>
               /\ HasBand(CropSoil, "phh2o") =>
                      WeightedPhLabel \in Elements(crop_ret[1])
               /\ ~HasBand(CropSoil, "phh2o") =>
                      Elements(crop_ret[1]) \cap PhLabels = {}
               /\ (HasBand(CropSoil, "clay") \/ HasBand(CropSoil, "sand")) =>
                      WeightedTextureLabel \in Elements(crop_ret[1])


\* C30: for every soil mapping with numeric depth values (the empty mapping,
\* missing properties and missing bands included) recommend_crops returns a
\* non-empty list, and "General crops (adaptable to various soil conditions)"
\* is in it only as its sole element, never next to a specific crop
C30_NonEmptyGeneralAlone ==
    CropReturned =>
        /\ Len(crop_ret[1]) >= 1
        /\ "General crops (adaptable to various soil conditions)"
               \in Elements(crop_ret[1]) => Len(crop_ret[1]) = 1

\* All five properties are usable and the pH of 8.5 meets no rule: the
\* general label alone
C30_Witness ==
    /\ CropReturned
    /\ AllUsable(CropSoil)
    /\ CropSoil["phh2o"] = SoilDepthDict(85, 85, 85)
    /\ crop_ret[1] = <<"General crops (adaptable to various soil conditions)">>

-----------------------------------------------------------------------------
(* Further claims about estimate_energy_potential, under SpecEstimate *)

\* The result of the same call when both figures render
EstResultRendered ==
    estimate_energy_potential(est_args.area_m2, est_args.pv_config,
                              est_args.wind_config, DcVoltage, est_args.api,
                              TRUE, TRUE).value[1]

\* The fields of a result other than the two plots
EstNumbers(result) ==
    <<result.total_energy_kwh, result.pv_energy_kwh, result.wind_energy_kwh,
      result.total_revenue, result.monthly_breakdown, result.config>>

\* C25: when rendering the hourly or the daily plot fails, the call still
\* returns, the plot that failed is the empty string, and the energies, the
\* revenue, the monthly breakdown and the other plot are those of the call
\* in which both plots render
C25_PlotFailureIsLocal ==
    (est_ret # <<>> /\ EstSeries # <<>>
     /\ ~(est_args.hourly_rendered /\ est_args.daily_rendered)) =>
        /\ est_ret[1].raised = "none"
        /\ EstNumbers(EstResult) = EstNumbers(EstResultRendered)
        /\ IF est_args.hourly_rendered
           THEN EstResult.hourly_plot = EstResultRendered.hourly_plot
           ELSE EstResult.hourly_plot = ""
        /\ IF est_args.daily_rendered
           THEN EstResult.daily_plot = EstResultRendered.daily_plot
           ELSE EstResult.daily_plot = ""

\* The hourly plot fails on a series with energy in it; the daily plot is there
C25_Witness ==
    /\ EstReturned
    /\ EstSeries # <<>>
    /\ ~est_args.hourly_rendered /\ est_args.daily_rendered
    /\ EstResult.hourly_plot = "" /\ EstResult.daily_plot # ""
    /\ EstResult.total_energy_kwh[1] > 0
    /\ EstResult.monthly_breakdown # <<>>

-----------------------------------------------------------------------------
(* Specification of the two functions that take the area of the land:       *)
(* estimate_energy_potential with area_m2 and estimate_agri_revenue with    *)
(* area_ha, each called once, in either order                               *)

\* None, a text that float() rejects, and negative, zero and positive numbers
AreaCases == EstAreas \cup {<<"num", -10>>}

AreaApiResponses ==
    {[kind |-> "network_error"]}
    \cup {[kind |-> "http", status |-> 200,
           body |-> [kind |-> "hourly", time |-> t,
                     shortwave_radiation |-> [i \in 1..Len(t) |-> <<5>>],
                     wind_speed_10m |-> [i \in 1..Len(t) |-> <<3>>]]] :
             t \in {<<>>, << <<1, 1>> >>, << <<1, 1>>, <<2, 1>> >>}}

AreaCropLists == {<<>>, <<"Rice">>, <<"Quinoa", "Sugarcane">>}

InitArea ==
    /\ est_args \in [area_m2 : AreaCases, pv_config : EstPvConfigs,
                     wind_config : EstWindConfigs, api : AreaApiResponses,
                     hourly_rendered : {TRUE}, daily_rendered : {TRUE}]
    /\ est_ret = <<>>
    /\ agri_args \in [crops : AreaCropLists, area_ha : {-1, 0, 1}]
    /\ agri_ret = <<>>
    /\ MixedIdle /\ PvIdle /\ WindIdle /\ FetchIdle
    /\ JsonIdle /\ SoilIdle /\ CacheIdle
    /\ CropIdle /\ ViewIdle /\ ReqsIdle

NextArea == CallEstimate \/ CallAgri

SpecArea == InitArea /\ [][NextArea]_vars

\* The area is None, not a number, or a number <= 0
AreaUnusable(area_m2) == area_m2[1] \in {"none", "text"} \/ area_m2[2] <= 0

\* C27: with an area of None, a non-numeric area or an area <= 0,
\* estimate_energy_potential does not raise and reports pv_energy_kwh = 0
\* and total_energy_kwh equal to the wind energy; with area_ha <= 0 or an
\* empty crop list estimate_agri_revenue returns best_crop None,
\* max_revenue 0 and no details
C27_UnusableAreaGivesZeros ==
    /\ (est_ret # <<>> /\ AreaUnusable(est_args.area_m2)) =>
           /\ est_ret[1].raised = "none"
           /\ EstResult.pv_energy_kwh = <<0, 0>>
           /\ EstResult.total_energy_kwh = EstResult.wind_energy_kwh
           /\ \A i \in 1..Len(EstResult.monthly_breakdown) :
                  EstResult.monthly_breakdown[i].pv_energy_kwh = <<0, 0>>
    /\ (agri_ret # <<>> /\ (agri_args.crops = <<>> \/ agri_args.area_ha <= 0)) =>
           /\ agri_ret[1].best_crop = <<>>
           /\ agri_ret[1].max_revenue = 0
           /\ agri_ret[1].details = <<>>

\* Both calls have returned: the energy estimate for an area of None over a
\* series with wind in it, and the revenue estimate for two crops on no land
C27_Witness ==
    /\ est_ret # <<>> /\ agri_ret # <<>>
    /\ est_args.area_m2 = <<"none">>
    /\ EstSeries # <<>>
    /\ EstResult.wind_energy_kwh[2] > 0
    /\ EstResult.total_energy_kwh = EstResult.wind_energy_kwh
    /\ agri_args.crops = <<"Quinoa", "Sugarcane">> /\ agri_args.area_ha = 0
    /\ agri_ret[1].details = <<>>

-----------------------------------------------------------------------------
(* Further claims about calculate_mixed_potential, under SpecMixed *)

\* The name of the best scenario of the call
MixedBestName == mixed_ret[1].best_scenario.name

-----------------------------------------------------------------------------
(* ProcessAnalysisView.get (views.py): the handler that runs                *)
(* get_soil_data, recommend_crops, estimate_energy_potential,               *)
(* estimate_agri_revenue and calculate_mixed_potential for one analysis     *)
(*                                                                          *)
(* analysis.area_m2 (in 100 m2, as in the PV model) and analysis.area_ha    *)
(* are nullable floats: <<>> or <<v>>.                                      *)

\* Python's truth value of a nullable number
Truthy(x) == x # <<>> /\ x[1] # 0

\* One hectare in units of 100 m2
HaUnits == 100

\* area_m2=analysis.area_m2 or (analysis.area_ha * 10000 if analysis.area_ha
\* else 0) (lines 107-108)
ViewAreaM2(analysis) ==
    IF Truthy(analysis.area_m2) THEN <<"num", analysis.area_m2[1]>>
    ELSE IF Truthy(analysis.area_ha) THEN <<"num", analysis.area_ha[1] * HaUnits>>
    ELSE <<"num", 0>>

\* area_ha = analysis.area_ha or (analysis.area_m2 / 10000.0 if
\* analysis.area_m2 else 0) (line 132); the areas of the model are whole
\* hectares, so the division is exact
ViewAreaHa(analysis) ==
    IF Truthy(analysis.area_ha) THEN analysis.area_ha[1]
    ELSE IF Truthy(analysis.area_m2) THEN analysis.area_m2[1] \div HaUnits
    ELSE 0

\* The PV configuration of lines 109-114
ViewPvConfig ==
    [efficiency |-> 20, performance_ratio |-> 16, land_coverage |-> 12,
     system_efficiency |-> 19]

\* The energy an estimate reports, p / PvDen + w / (1000 * WindDen) kWh, as
\* the numerator over KwhDen that calculate_mixed_potential computes with;
\* exact for the analyses of the model
KwhOfTotal(total) ==
    (total[1] * KwhDen) \div PvDen + (total[2] * KwhDen) \div (1000 * WindDen)

\* The energy results as calculate_mixed_potential reads them (lines 305-306)
ViewEnergyForMixed(energy_results) ==
    [pv_energy_kwh |-> KwhOfTotal(energy_results.pv_energy_kwh),
     wind_energy_kwh |-> KwhOfTotal(energy_results.wind_energy_kwh)]

\* The energy results of the handler's except branch (lines 147-157)
ViewFailedEnergyResults ==
    [total_energy_kwh |-> <<0, 0>>, pv_energy_kwh |-> <<0, 0>>,
     wind_energy_kwh |-> <<0, 0>>, total_revenue |-> <<0, 0>>,
     monthly_breakdown |-> <<>>, hourly_plot |-> "", daily_plot |-> "",
     agri_revenue |-> <<>>, mixed_analysis |-> <<>>]

\* Lines 100-157: the energy estimate, the agri revenue and the mixed
\* potential merged into the energy results
ViewEnergyResults(analysis, crop_recommendations, weather_api) ==
    LET est == estimate_energy_potential(ViewAreaM2(analysis), ViewPvConfig,
                                         analysis.wind_config, DcVoltage,
                                         weather_api, TRUE, TRUE)
    IN  IF est.raised # "none" THEN ViewFailedEnergyResults
        ELSE LET energy_results == est.value[1]
                 area_ha == ViewAreaHa(analysis)
                 agri_revenue_results ==
                     estimate_agri_revenue(crop_recommendations, area_ha)
                 mixed_results ==
                     calculate_mixed_potential(ViewEnergyForMixed(energy_results),
                                               agri_revenue_results, area_ha)
             IN  [total_energy_kwh |-> energy_results.total_energy_kwh,
                  pv_energy_kwh |-> energy_results.pv_energy_kwh,
                  wind_energy_kwh |-> energy_results.wind_energy_kwh,
                  total_revenue |-> energy_results.total_revenue,
                  monthly_breakdown |-> energy_results.monthly_breakdown,
                  hourly_plot |-> energy_results.hourly_plot,
                  daily_plot |-> energy_results.daily_plot,
                  agri_revenue |-> agri_revenue_results,
                  mixed_analysis |-> mixed_results]

\* The handler: an exception of get_soil_data reaches the outer except
\* (lines 164-166), which redirects to the index without saving
ProcessAnalysis(analysis, soil_api, weather_api) ==
    LET soil == get_soil_data(FALSE, soil_api)
    IN  IF soil.raised # "none" THEN [redirect |-> "index", saved |-> <<>>]
        ELSE LET soil_data == soil.value[1]
                 crop_recommendations == recommend_crops(soil_data)
             IN  [redirect |-> "results",
                  saved |-> << [soil_data |-> soil_data,
                                crop_recommendations |-> crop_recommendations,
                                energy_results |->
                                    ViewEnergyResults(analysis, crop_recommendations,
                                                      weather_api)] >>]

-----------------------------------------------------------------------------
(* Specification of ProcessAnalysisView.get *)

\* Areas of no land, of one hectare given in m2, of two hectares given in ha
ViewAreas ==
    {[area_m2 |-> <<>>, area_ha |-> <<>>], [area_m2 |-> <<0>>, area_ha |-> <<0>>],
     [area_m2 |-> <<HaUnits>>, area_ha |-> <<>>], [area_m2 |-> <<>>, area_ha |-> <<2>>]}

\* The analyses: each area with a turbine without rotor, so that the energy
\* of a series with rows is PV energy, a whole number of sixths of a kWh
ViewAnalyses ==
    {[area_m2 |-> a.area_m2, area_ha |-> a.area_ha, wind_config |-> w] :
        a \in ViewAreas, w \in {[Turbine(50) EXCEPT !.rotor_diameter_m = 0]}}

\* The soil API fails (mock data), answers an object without layers (empty
\* soil data), answers null (get_soil_data raises), or answers clay alone
ViewSoilResponses ==
    {[kind |-> "network_error"],
     [kind |-> "http", status |-> 200,
      body |-> [kind |-> "object", properties |-> [kind |-> "absent"]]],
     [kind |-> "http", status |-> 200, body |-> [kind |-> "null"]],
     [kind |-> "http", status |-> 200,
      body |-> [kind |-> "object",
                properties |-> [kind |-> "mapping",
                                layers |-> [kind |-> "list",
                                            items |-> << [kind |-> "layer", name |-> "clay",
                                                          depths |-> <<SoilGoodDepth>>] >>]]]]}

\* Weather answers that yield an empty series, and two that yield rows
ViewWeatherResponses ==
    {[kind |-> "network_error"], [kind |-> "timeout"],
     [kind |-> "http", status |-> 500, body |-> [kind |-> "not_json"]],
     [kind |-> "http", status |-> 200, body |-> [kind |-> "no_hourly"]],
     [kind |-> "http", status |-> 200,
      body |-> [kind |-> "hourly", time |-> << <<1, 1>> >>,
                shortwave_radiation |-> <<NaN>>, wind_speed_10m |-> <<NaN>>]]}
    \cup {[kind |-> "http", status |-> 200,
           body |-> [kind |-> "hourly", time |-> t,
                     shortwave_radiation |-> [i \in 1..Len(t) |-> <<5>>],
                     wind_speed_10m |-> [i \in 1..Len(t) |-> <<3>>]]] :
             t \in {<< <<1, 1>> >>, << <<1, 1>>, <<2, 1>> >>}}

InitView ==
    /\ view_args \in [analysis : ViewAnalyses, soil_api : ViewSoilResponses,
                      weather_api : ViewWeatherResponses]
    /\ view_ret = <<>>
    /\ MixedIdle /\ PvIdle /\ WindIdle /\ FetchIdle /\ EstIdle
    /\ JsonIdle /\ SoilIdle /\ CacheIdle
    /\ AgriIdle /\ CropIdle /\ ReqsIdle

GetProcessAnalysis ==
    /\ view_ret = <<>>
    /\ view_ret' = <<ProcessAnalysis(view_args.analysis, view_args.soil_api,
                                     view_args.weather_api)>>
    /\ UNCHANGED view_args
    /\ UNCHANGED <<mixed_args, mixed_ret, pv_args, pv_ret, wind_args, wind_ret,
                   fetch_args, fetch_ret, est_args, est_ret>>
    /\ UNCHANGED <<json_vars, soil_vars, cache_vars, agri_vars, crop_vars, reqs, figures>>

NextView == GetProcessAnalysis

SpecView == InitView /\ [][NextView]_vars


\* The weather series the handler's estimate works on, and what it saved
ViewSeries == fetch_hourly_weather("valid", view_args.weather_api).df

ViewSaved == view_ret[1].saved[1]

\* The pipeline ran: the handler returned and get_soil_data did not raise
ViewRan == view_ret # <<>> /\ view_ret[1].saved # <<>>

\* C28: when the weather fetch yields an empty series, the pipeline still
\* produces the seven scenarios, with revenue 0 for Solar Only, Wind Only and
\* Solar + Wind; the best scenario is Agriculture Only, named for the best
\* crop, when the agri max_revenue is > 0, and Solar Only with revenue 0
\* otherwise
C28_EmptyWeatherPipeline ==
    (ViewRan /\ ViewSeries = <<>>) =>
        LET mixed == ViewSaved.energy_results.mixed_analysis
            agri == ViewSaved.energy_results.agri_revenue
        IN  /\ [i \in 1..Len(mixed.scenarios) |-> mixed.scenarios[i].name[1]]
                   = MixedKinds
            /\ mixed.scenarios[1].revenue = 0
            /\ mixed.scenarios[2].revenue = 0
            /\ mixed.scenarios[4].revenue = 0
            /\ IF agri.max_revenue > 0
               THEN /\ mixed.best_scenario.name = <<"Agriculture Only", agri.best_crop>>
                    /\ agri.best_crop # <<>>
                    /\ mixed.best_scenario.revenue = agri.max_revenue * RevDen
               ELSE /\ mixed.best_scenario.name = <<"Solar Only">>
                    /\ mixed.best_scenario.revenue = 0

\* The weather API is unreachable and the soil API too: the mock soil gives
\* six crops, of which oilseeds earn most on the two hectares
C28_Witness ==
    /\ ViewRan
    /\ view_args.weather_api.kind = "network_error"
    /\ ViewSaved.soil_data = MOCK_SOIL_DATA
    /\ view_args.analysis.area_ha = <<2>>
    /\ ViewSaved.energy_results.total_energy_kwh = <<0, 0>>
    /\ ViewSaved.energy_results.agri_revenue.max_revenue = 250000
    /\ ViewSaved.energy_results.mixed_analysis.best_scenario.name
           = <<"Agriculture Only", <<"Oilseeds (Groundnut, Sunflower, etc.)">> >>

\* The pipeline on no land and an empty series: Solar Only with revenue 0
C28_NoLand ==
    /\ ViewRan
    /\ ViewSeries = <<>>
    /\ ViewSaved.energy_results.agri_revenue.max_revenue = 0
    /\ ViewSaved.energy_results.mixed_analysis.best_scenario.name = <<"Solar Only">>

\* The conversion of the energies is exact, and with rows and land the PV
\* energy reaches the scenarios
C28_EnergyReachesScenarios ==
    (ViewRan /\ ViewSeries # <<>>) =>
        LET er == ViewSaved.energy_results
        IN  /\ KwhOfTotal(er.pv_energy_kwh) * PvDen = er.pv_energy_kwh[1] * KwhDen
            /\ er.wind_energy_kwh = <<0, 0>>
            /\ er.mixed_analysis.scenarios[1].revenue
                   = KwhOfTotal(er.pv_energy_kwh) * 6 * BlendDen

-----------------------------------------------------------------------------
(* Two concurrent calls of estimate_energy_potential                        *)
(*                                                                          *)
(* Each call runs in a thread of the same process.  Its arguments, its      *)
(* DataFrame and its figures are objects of its own.  Two things are        *)
(* reached through module-level names and so are the same for both calls:   *)
(*   - the response cache behind requests_cache.CachedSession(              *)
(*     ".openmeteo_cache", ...) (lines 91-92);                              *)
(*   - the figure registry of matplotlib.pyplot: plt.subplots (lines 213    *)
(*     and 234) registers the new figure with it, and plt.close(fig)        *)
(*     (line 39) looks the figure up in it and removes it.                  *)
(* pyplot takes no lock.  plt.close(fig) walks the registry to find the     *)
(* figure's manager; when another thread registers or removes a figure      *)
(* during that walk the walk either ends normally or raises RuntimeError,   *)
(* which leaves plot_to_base64 and is caught at line 221 or 241.            *)
(*                                                                          *)
(* reqs.api is what the network answers for each request; reqs.workers[w]   *)
(* is the call of worker w: the request it makes (key), the response its    *)
(* session handed back, the plot it is at, the registry as it was when its  *)
(* plt.close began (seen), whether each plot rendered, and its result.      *)

Workers == {1, 2}

\* The figures are named by the worker and the plot they were created for
FigureOf(w, plot) == <<w, plot>>

\* plt.subplots (lines 213, 234): the registry with the new figure
plt_subplots(figs, fig) == figs \cup {fig}

\* plt.close(fig) (line 39) when it ends normally: the registry without fig
plt_close(figs, fig) == figs \ {fig}

\* Whether plt.close can raise: the registry changed while it was walked
CloseOutcomes(figs, seen) == IF figs = seen THEN {FALSE} ELSE BOOLEAN

\* The arguments of both calls, as the view passes them (views.py 102-124)
ConcArea == <<"num", 10>>

ConcPvConfig ==
    [efficiency |-> 20, performance_ratio |-> 16, land_coverage |-> 12,
     system_efficiency |-> 19]

ConcWindConfig == Turbine(50)

\* A second hourly series, with another irradiance
ConcHourlyB == [CacheHourly EXCEPT !.shortwave_radiation = << <<7>> >>]

ConcApiResponses ==
    { [kind |-> "network_error"],
      [kind |-> "http", status |-> 200, body |-> CacheHourly],
      [kind |-> "http", status |-> 200, body |-> ConcHourlyB] }

NewWorker(key) ==
    [pc |-> "start", key |-> key, response |-> <<>>, plot |-> "hourly",
     seen |-> {}, hourly_rendered |-> FALSE, daily_rendered |-> FALSE,
     ret |-> <<>>]

InitConcurrent ==
    /\ reqs \in { [api |-> api, workers |-> [w \in Workers |-> NewWorker(keys[w])]] :
                     api \in [CacheKeys -> ConcApiResponses],
                     keys \in [Workers -> CacheKeys] }
    /\ figures = {}
    /\ clock = 0
    /\ cache = [k \in CacheKeys |-> <<>>]
    /\ net_log = {}
    /\ cache_call = <<>>
    /\ MixedIdle /\ PvIdle /\ WindIdle /\ FetchIdle /\ EstIdle
    /\ JsonIdle /\ SoilIdle
    /\ AgriIdle /\ CropIdle /\ ViewIdle

\* What a step of a call leaves alone
ConcUnchanged ==
    /\ UNCHANGED <<clock, net_log, cache_call>>
    /\ UNCHANGED <<mixed_args, mixed_ret, pv_args, pv_ret, wind_args, wind_ret,
                   fetch_args, fetch_ret, est_args, est_ret, json_vars, soil_vars>>
    /\ UNCHANGED <<agri_vars, crop_vars, view_vars>>

\* Line 186, df = fetch_hourly_weather(...): the session answers from the
\* shared cache or from the network; an empty frame returns at line 188
ConcFetch(w) ==
    LET me == reqs.workers[w]
        got == SessionGet(cache, clock, me.key, reqs.api[me.key])
        fetched == fetch_hourly_weather("valid", got.response)
        plots == fetched.raised = "none" /\ ~EmptyFrame(fetched.df)
    IN  /\ me.pc = "start"
        /\ cache' = IF got.stored
                    THEN [cache EXCEPT ![me.key] = <<[at |-> clock, api |-> got.response]>>]
                    ELSE cache
        /\ reqs' = [reqs EXCEPT !.workers[w].response = <<got.response>>,
                                !.workers[w].pc = IF plots THEN "subplots" ELSE "return"]
        /\ UNCHANGED figures
        /\ ConcUnchanged

\* Lines 213 and 234, plt.subplots(figsize=(10, 4))
ConcSubplots(w) ==
    LET me == reqs.workers[w]
    IN  /\ me.pc = "subplots"
        /\ figures' = plt_subplots(figures, FigureOf(w, me.plot))
        /\ reqs' = [reqs EXCEPT !.workers[w].pc = "close"]
        /\ UNCHANGED cache
        /\ ConcUnchanged

\* Line 39, plt.close(fig), begins to walk the registry (the figure is
\* drawn and saved by then, lines 214-219 and 34-38)
ConcCloseBegin(w) ==
    LET me == reqs.workers[w]
    IN  /\ me.pc = "close"
        /\ reqs' = [reqs EXCEPT !.workers[w].seen = figures,
                                !.workers[w].pc = "closing"]
        /\ UNCHANGED <<cache, figures>>
        /\ ConcUnchanged

\* Line 39 ends: the figure is removed and the plot is the data URI (line
\* 40), or plt.close raised and the plot is "" (lines 221-223, 241-243)
ConcCloseEnd(w) ==
    LET me == reqs.workers[w]
    IN  /\ me.pc = "closing"
        /\ \E raised \in CloseOutcomes(figures, me.seen) :
               /\ figures' = IF raised THEN figures
                             ELSE plt_close(figures, FigureOf(w, me.plot))
               /\ reqs' =
                      IF me.plot = "hourly"
                      THEN [reqs EXCEPT !.workers[w].hourly_rendered = ~raised,
                                        !.workers[w].plot = "daily",
                                        !.workers[w].pc = "subplots"]
                      ELSE [reqs EXCEPT !.workers[w].daily_rendered = ~raised,
                                        !.workers[w].pc = "return"]
        /\ UNCHANGED cache
        /\ ConcUnchanged

\* Lines 188-198 or 257-296: the call returns its result
ConcReturn(w) ==
    LET me == reqs.workers[w]
    IN  /\ me.pc = "return"
        /\ reqs' = [reqs EXCEPT
                      !.workers[w].ret =
                          << estimate_energy_potential(
                                 ConcArea, ConcPvConfig, ConcWindConfig, DcVoltage,
                                 me.response[1], me.hourly_rendered,
                                 me.daily_rendered) >>,
                      !.workers[w].pc = "done"]
        /\ UNCHANGED <<cache, figures>>
        /\ ConcUnchanged

NextConcurrent ==
    \E w \in Workers :
        \/ ConcFetch(w)
        \/ ConcSubplots(w)
        \/ ConcCloseBegin(w)
        \/ ConcCloseEnd(w)
        \/ ConcReturn(w)

SpecConcurrent == InitConcurrent /\ [][NextConcurrent]_vars

-----------------------------------------------------------------------------
(* Claims about concurrent calls of estimate_energy_potential *)

\* The result of worker w's call when it runs alone and the network answers
\* its request as in this behaviour
ResultAlone(w) ==
    estimate_energy_potential(ConcArea, ConcPvConfig, ConcWindConfig, DcVoltage,
                              reqs.api[reqs.workers[w].key], TRUE, TRUE)

ConcDone(w) == reqs.workers[w].pc = "done"

\* No step of a call changes the figure registry, the state other than the
\* cache that both calls reach
OnlyCacheShared == [][figures' = figures]_vars

\* C26: in every interleaving of two concurrent estimation requests, the
\* only state the requests share is the weather response cache, and so each
\* request returns the result it returns when run alone against the same
\* weather responses.
C26_RequestsIndependent ==
    \A w \in Workers : ConcDone(w) => reqs.workers[w].ret[1] = ResultAlone(w)

\* What does hold: the numbers of each result are those of the call alone
C26_NumbersAsAlone ==
    \A w \in Workers :
        ConcDone(w) /\ reqs.workers[w].ret[1].raised = "none"
            => /\ ResultAlone(w).raised = "none"
               /\ EstNumbers(reqs.workers[w].ret[1].value[1])
                      = EstNumbers(ResultAlone(w).value[1])

\* Both calls are done and one of them lost a plot that it renders alone
C26_LostPlot ==
    /\ \A w \in Workers : ConcDone(w)
    /\ \E w \in Workers :
           /\ reqs.workers[w].ret[1].value[1].hourly_plot = ""
           /\ ResultAlone(w).value[1].hourly_plot # ""

-----------------------------------------------------------------------------
=============================================================================
